---- MODULE Spec2Model ----
(***************************************************************************)
(* SupaToolifyMCP: discovery of catalog objects, registration of one MCP   *)
(* tool per object, and invocation of the registered tools.                *)
(*                                                                         *)
(* Identifiers and type names are sequences of one-character strings, so   *)
(* that the name normalisation and the type mapper work on the characters  *)
(* as the code does.  Free text (comments, messages) is a plain string.    *)
(***************************************************************************)
EXTENDS Integers, Sequences, FiniteSets, TLC

(***************************************************************************)
(* Bounds of the model.                                                    *)
(***************************************************************************)
\* longest object listing the catalog returns
MaxObjects == 2
\* invocations that may be in flight at the same time
MaxInv == 1

(***************************************************************************)
(* Characters.                                                             *)
(***************************************************************************)
LowerChars ==
  <<"a","b","c","d","e","f","g","h","i","j","k","l","m",
    "n","o","p","q","r","s","t","u","v","w","x","y","z">>

UpperChars ==
  <<"A","B","C","D","E","F","G","H","I","J","K","L","M",
    "N","O","P","Q","R","S","T","U","V","W","X","Y","Z">>

DigitChars == {"0","1","2","3","4","5","6","7","8","9"}

IsLower(c) == \E i \in 1..Len(LowerChars) : LowerChars[i] = c

IsUpper(c) == \E i \in 1..Len(UpperChars) : UpperChars[i] = c

IsDigit(c) == c \in DigitChars

IsAlnum(c) == IsLower(c) \/ IsUpper(c) \/ IsDigit(c)

toLowerChar(c) ==
  IF IsUpper(c)
    THEN LowerChars[CHOOSE i \in 1..Len(UpperChars) : UpperChars[i] = c]
    ELSE c

toUpperChar(c) ==
  IF IsLower(c)
    THEN UpperChars[CHOOSE i \in 1..Len(LowerChars) : LowerChars[i] = c]
    ELSE c

toLowerCase(s) == [i \in 1..Len(s) |-> toLowerChar(s[i])]

(***************************************************************************)
(* camelCase of the change-case package, as the introspector calls it.     *)
(* The input is cut into words: every run of characters that are neither   *)
(* letters nor digits separates two words, and so does a lower-case letter *)
(* or digit followed by an upper-case letter, and an upper-case letter     *)
(* followed by an upper-case and then a lower-case letter.  The first word *)
(* is lower-cased; each later word gets its first letter in upper case and *)
(* the rest in lower case, or a leading underscore when it starts with a   *)
(* digit.                                                                  *)
(***************************************************************************)
WordBreakBefore(s, i) ==
  /\ i > 1
  /\ \/ (IsLower(s[i-1]) \/ IsDigit(s[i-1])) /\ IsUpper(s[i])
     \/ /\ IsUpper(s[i-1])
        /\ IsUpper(s[i])
        /\ i < Len(s)
        /\ IsLower(s[i+1])

RECURSIVE SplitWords(_, _, _, _)
SplitWords(s, i, cur, acc) ==
  LET flush == IF cur = <<>> THEN acc ELSE Append(acc, cur)
  IN IF i > Len(s) THEN flush
     ELSE IF ~IsAlnum(s[i]) THEN SplitWords(s, i + 1, <<>>, flush)
     ELSE IF WordBreakBefore(s, i) THEN SplitWords(s, i + 1, <<s[i]>>, flush)
     ELSE SplitWords(s, i + 1, Append(cur, s[i]), acc)

pascalCaseTransform(word, index) ==
  LET rest == toLowerCase(SubSeq(word, 2, Len(word)))
  IN IF index > 1 /\ IsDigit(word[1])
       THEN <<"_", word[1]>> \o rest
       ELSE <<toUpperChar(word[1])>> \o rest

\* faulty variant: the first word capitalised like the later ones
camelCaseTransform_AllPascal(word, index) == pascalCaseTransform(word, index + 1)

camelCaseTransform(word, index) ==
  IF index = 1 THEN toLowerCase(word) ELSE pascalCaseTransform(word, index)

RECURSIVE JoinWords(_, _)
JoinWords(words, index) ==
  IF index > Len(words) THEN <<>>
  ELSE camelCaseTransform(words[index], index) \o JoinWords(words, index + 1)

camelCase(s) == JoinWords(SplitWords(s, 1, <<>>, <<>>), 1)

(***************************************************************************)
(* Semantic (zod) types: a base type, array(of), nullable(of).             *)
(***************************************************************************)
ZString == [k |-> "string"]

ZInt == [k |-> "int"]

ZBigInt == [k |-> "bigint"]

ZNumericString == [k |-> "numericString"]

ZNumber == [k |-> "number"]

ZBoolean == [k |-> "boolean"]

ZUuid == [k |-> "uuid"]

ZDate == [k |-> "date"]

ZDateTime == [k |-> "datetime"]

ZAny == [k |-> "any"]

ZArray(t) == [k |-> "array", of |-> t]

ZNullable(t) == [k |-> "nullable", of |-> t]

ZOptional(t) == [k |-> "optional", of |-> t]

(***************************************************************************)
(* The case labels of the type mapper's switch.                            *)
(***************************************************************************)
StringTypeNames ==
  { <<"t","e","x","t">>,
    <<"v","a","r","c","h","a","r">>,
    <<"c","h","a","r">>,
    <<"n","a","m","e">>,
    <<"b","p","c","h","a","r">> }

IntTypeNames ==
  { <<"i","n","t">>,
    <<"i","n","t","e","g","e","r">>,
    <<"i","n","t","4">>,
    <<"s","m","a","l","l","i","n","t">>,
    <<"s","e","r","i","a","l">>,
    <<"s","m","a","l","l","s","e","r","i","a","l">> }

BigIntTypeNames ==
  { <<"b","i","g","i","n","t">>,
    <<"b","i","g","s","e","r","i","a","l">>,
    <<"i","n","t","8">> }

NumericTypeNames ==
  { <<"n","u","m","e","r","i","c">>,
    <<"d","e","c","i","m","a","l">> }

FloatTypeNames ==
  { <<"r","e","a","l">>,
    <<"f","l","o","a","t","4">>,
    <<"d","o","u","b","l","e","p","r","e","c","i","s","i","o","n">>,
    <<"f","l","o","a","t","8">> }

BooleanTypeNames ==
  { <<"b","o","o","l","e","a","n">>,
    <<"b","o","o","l">> }

UuidTypeNames ==
  { <<"u","u","i","d">> }

DateTypeNames ==
  { <<"d","a","t","e">> }

TimestampTypeNames ==
  { <<"t","i","m","e","s","t","a","m","p">>,
    <<"t","i","m","e","s","t","a","m","p","t","z">> }

JsonTypeNames ==
  { <<"j","s","o","n">>,
    <<"j","s","o","n","b">> }

ByteaTypeNames ==
  { <<"b","y","t","e","a">> }

(***************************************************************************)
(* mapPgTypeToZod: array marker, element name, switch, array wrapper,      *)
(* nullable wrapper.                                                       *)
(***************************************************************************)
startsWithUnderscore(pgType) == Len(pgType) >= 1 /\ pgType[1] = "_"

endsWithBrackets(pgType) ==
  /\ Len(pgType) >= 2
  /\ pgType[Len(pgType) - 1] = "["
  /\ pgType[Len(pgType)] = "]"

isArrayType(pgType) == startsWithUnderscore(pgType) \/ endsWithBrackets(pgType)

elementTypeOf(pgType) ==
  IF isArrayType(pgType)
    THEN IF startsWithUnderscore(pgType)
           THEN SubSeq(pgType, 2, Len(pgType))
           ELSE SubSeq(pgType, 1, Len(pgType) - 2)
    ELSE pgType

IsNotSpace(c) == c # " "

normalizedElementType(pgType) ==
  SelectSeq(toLowerCase(elementTypeOf(pgType)), IsNotSpace)

KnownTypeNames ==
  StringTypeNames \cup IntTypeNames \cup BigIntTypeNames \cup NumericTypeNames
    \cup FloatTypeNames \cup BooleanTypeNames \cup UuidTypeNames
    \cup DateTypeNames \cup TimestampTypeNames \cup JsonTypeNames
    \cup ByteaTypeNames

\* faulty variant: a name without a label mapped to string
baseTypeOf_UnknownAsString(n) ==
  CASE n \in StringTypeNames -> ZString
    [] n \in IntTypeNames -> ZInt
    [] n \in BigIntTypeNames -> ZBigInt
    [] n \in NumericTypeNames -> ZNumericString
    [] n \in FloatTypeNames -> ZNumber
    [] n \in BooleanTypeNames -> ZBoolean
    [] n \in UuidTypeNames -> ZUuid
    [] n \in DateTypeNames -> ZDate
    [] n \in TimestampTypeNames -> ZDateTime
    [] n \in JsonTypeNames -> ZAny
    [] OTHER -> ZString

baseTypeOf(n) ==
  CASE n \in StringTypeNames -> ZString
    [] n \in IntTypeNames -> ZInt
    [] n \in BigIntTypeNames -> ZBigInt
    [] n \in NumericTypeNames -> ZNumericString
    [] n \in FloatTypeNames -> ZNumber
    [] n \in BooleanTypeNames -> ZBoolean
    [] n \in UuidTypeNames -> ZUuid
    [] n \in DateTypeNames -> ZDate
    [] n \in TimestampTypeNames -> ZDateTime
    [] n \in JsonTypeNames -> ZAny
    [] n \in ByteaTypeNames -> ZString
    [] OTHER -> ZAny

\* the default branch of the switch logs a warning
warnsUnknownType(pgType) == normalizedElementType(pgType) \notin KnownTypeNames

\* faulty variant: the nullable wrapper put on the elements of an array
mapPgTypeToZod_NullableElements(pgType, isNullable) ==
  LET baseType == baseTypeOf(normalizedElementType(pgType))
      element == IF isNullable THEN ZNullable(baseType) ELSE baseType
  IN IF isArrayType(pgType) THEN ZArray(element) ELSE element

mapPgTypeToZod(pgType, isNullable) ==
  LET baseType == baseTypeOf(normalizedElementType(pgType))
      finalType == IF isArrayType(pgType) THEN ZArray(baseType) ELSE baseType
  IN IF isNullable THEN ZNullable(finalType) ELSE finalType

(***************************************************************************)
(* JSON values as the database and the callers hand them over.             *)
(***************************************************************************)
Null == [t |-> "null"]

Undefined == [t |-> "undefined"]

Txt(s) == [t |-> "txt", v |-> s]

Num(n) == [t |-> "num", v |-> n]

Arr(seq) == [t |-> "arr", v |-> seq]

Obj(rec) == [t |-> "obj", v |-> rec]

Scalar == [t |-> "scalar"]

TypeName(s) == [t |-> "name", v |-> s]

Bool(b) == [t |-> "bool", v |-> b]

EmptyRecord == [f \in {} |-> Null]

\* a ?? b
Coalesce(a, b) == IF a.t \in {"null", "undefined"} THEN b ELSE a

\* !x for the values of the model: undefined, null and "" are falsy
IsFalsy(x) == x.t \in {"null", "undefined"} \/ (x.t = "txt" /\ x.v = "")

(***************************************************************************)
(* The catalog the model runs against: two views whose names normalise to  *)
(* the same tool name, a view named like the built-in tool, a function     *)
(* with two parameters and a function whose two parameters normalise to    *)
(* the same public name.                                                   *)
(***************************************************************************)
N_user_list == <<"u","s","e","r","_","l","i","s","t">>

N_user__list == <<"u","s","e","r","_","_","l","i","s","t">>

N_get_info == <<"g","e","t","_","i","n","f","o">>

N_add_note == <<"a","d","d","_","n","o","t","e">>

N_dup_arg == <<"d","u","p","_","a","r","g">>

T_uuid == <<"u","u","i","d">>

T_text == <<"t","e","x","t">>

T_int4 == <<"i","n","t","4">>

T_timestamptz == <<"t","i","m","e","s","t","a","m","p","t","z">>

T_jsonb == <<"j","s","o","n","b">>

T_int8 == <<"i","n","t","8">>

ViewUserList ==
  [ object_name |-> N_user_list, object_type |-> "VIEW",
    comment |-> Txt("Lists the users."),
    columns |->
      << [ column_name |-> <<"i","d">>, data_type |-> T_uuid,
           is_nullable |-> FALSE, comment |-> Null ],
         [ column_name |-> <<"l","a","s","t","_","l","o","g","i","n">>, data_type |-> T_timestamptz,
           is_nullable |-> TRUE, comment |-> Txt("Timestamp of the last login.") ] >> ]

ViewUserList2 ==
  [ object_name |-> N_user__list, object_type |-> "VIEW",
    comment |-> Null,
    columns |->
      << [ column_name |-> <<"i","d">>, data_type |-> T_int4,
           is_nullable |-> FALSE, comment |-> Null ] >> ]

ViewGetInfo ==
  [ object_name |-> N_get_info, object_type |-> "VIEW",
    comment |-> Txt("Server facts."),
    columns |->
      << [ column_name |-> <<"i","n","f","o">>, data_type |-> T_text,
           is_nullable |-> TRUE, comment |-> Null ] >> ]

FunctionAddNote ==
  [ object_name |-> N_add_note, object_type |-> "FUNCTION",
    comment |-> Txt("Adds a note to a user."),
    parameters |->
      << [ parameter_name |-> <<"p","_","i","d">>, data_type |-> T_uuid, position |-> 1 ],
         [ parameter_name |-> <<"p","_","t","e","x","t">>, data_type |-> T_text, position |-> 2 ] >>,
    return_type |-> T_jsonb, returns_set |-> FALSE ]

FunctionDupArg ==
  [ object_name |-> N_dup_arg, object_type |-> "FUNCTION",
    comment |-> Null,
    parameters |->
      << [ parameter_name |-> <<"p","_","a">>, data_type |-> T_text, position |-> 1 ],
         [ parameter_name |-> <<"p","_","_","a">>, data_type |-> T_text, position |-> 2 ] >>,
    return_type |-> T_int8, returns_set |-> TRUE ]

CatalogObjects ==
  { ViewUserList, ViewUserList2, ViewGetInfo, FunctionAddNote, FunctionDupArg }

\* an entry of the listing: rpc_get_schema_objects
ListingEntry(o) ==
  [ object_name |-> o.object_name, object_type |-> o.object_type,
    comment |-> o.comment ]

\* a listing entry the entry schema rejects
BadListingEntry ==
  [ object_name |-> N_user_list, object_type |-> "TABLE", comment |-> Null ]

\* the sequences of at most n elements of S
RECURSIVE SeqsUpTo(_, _)
SeqsUpTo(S, n) ==
  IF n = 0 THEN { <<>> }
  ELSE LET shorter == SeqsUpTo(S, n - 1)
       IN shorter \cup
            { Append(q, x) : q \in shorter, x \in S }

Listings ==
  { q \in SeqsUpTo({ ListingEntry(o) : o \in CatalogObjects }, MaxObjects) :
      \A i, j \in 1..Len(q) : i # j => q[i] # q[j] }

BadListings == { Append(q, BadListingEntry) : q \in SeqsUpTo({ ListingEntry(ViewUserList) }, 1) }

\* what the listing call can come back with
ListOutcomes ==
  { [k |-> "error"], [k |-> "data", v |-> Null] }
    \cup { [k |-> "data", v |-> Arr(q)] : q \in Listings \cup BadListings }

CatalogObjectNamed(name, type) ==
  CHOOSE o \in CatalogObjects : o.object_name = name /\ o.object_type = type

\* what rpc_get_object_details can come back with for one listed object: a
\* failed call, JSON null, a non-object, the error object, the empty object,
\* an object with a type outside the enum, or the details
DetailOutcomes(entry) ==
  LET o == CatalogObjectNamed(entry.object_name, entry.object_type)
  IN { [k |-> "error"],
       [k |-> "data", v |-> Null],
       [k |-> "data", v |-> Scalar],
       [k |-> "data", v |-> Obj([error |-> "Function details not found or ambiguous"])],
       [k |-> "data", v |-> Obj(EmptyRecord)],
       [k |-> "data", v |-> Obj([o EXCEPT !.object_type = "TABLE"])],
       [k |-> "data", v |-> Obj(o)] }

IsGoodDetail(entry, outcome) ==
  outcome = [k |-> "data", v |-> Obj(CatalogObjectNamed(entry.object_name, entry.object_type))]

(***************************************************************************)
(* SupabaseClientWrapper: the client answers {data, error}; an error is    *)
(* thrown, the data is returned.                                           *)
(***************************************************************************)
callRpc(outcome) ==
  IF outcome.k = "error"
    THEN [k |-> "throw", message |-> "Supabase RPC call failed"]
    ELSE [k |-> "return", v |-> outcome.v]

\* faulty variant: selectFromView handing null data on as it is
selectFromView_NoCoalesce(outcome) ==
  IF outcome.k = "error"
    THEN [k |-> "throw", message |-> "Supabase select failed"]
    ELSE [k |-> "return", v |-> outcome.v]

selectFromView(outcome) ==
  IF outcome.k = "error"
    THEN [k |-> "throw", message |-> "Supabase select failed"]
    ELSE [k |-> "return", v |-> Coalesce(outcome.v, Arr(<<>>))]

(***************************************************************************)
(* The zod schemas of the introspector.                                    *)
(***************************************************************************)
ObjectTypes == {"VIEW", "FUNCTION"}

IsNullableString(x) == x.t \in {"null", "txt"}

schemaObjectSchema(e) ==
  /\ {"object_name", "object_type", "comment"} \subseteq DOMAIN e
  /\ e.object_type \in ObjectTypes
  /\ IsNullableString(e.comment)

columnDetailSchema(c) ==
  /\ {"column_name", "data_type", "is_nullable", "comment"} \subseteq DOMAIN c
  /\ c.is_nullable \in BOOLEAN
  /\ IsNullableString(c.comment)

parameterDetailSchema(q) ==
  /\ {"parameter_name", "data_type", "position"} \subseteq DOMAIN q
  /\ q.position \in Int

ObjectDetailKeys ==
  { "object_name", "object_type", "comment", "columns", "parameters",
    "return_type", "returns_set" }

\* faulty variant: the details schema without the enum of object types
objectDetailsSchema_AnyType(d) ==
  /\ {"object_name", "object_type", "comment"} \subseteq DOMAIN d
  /\ IsNullableString(d.comment)
  /\ "columns" \in DOMAIN d =>
       \A i \in 1..Len(d.columns) : columnDetailSchema(d.columns[i])
  /\ "parameters" \in DOMAIN d =>
       \A i \in 1..Len(d.parameters) : parameterDetailSchema(d.parameters[i])
  /\ "returns_set" \in DOMAIN d => d.returns_set \in BOOLEAN

objectDetailsSchema(d) ==
  /\ {"object_name", "object_type", "comment"} \subseteq DOMAIN d
  /\ d.object_type \in ObjectTypes
  /\ IsNullableString(d.comment)
  /\ "columns" \in DOMAIN d =>
       \A i \in 1..Len(d.columns) : columnDetailSchema(d.columns[i])
  /\ "parameters" \in DOMAIN d =>
       \A i \in 1..Len(d.parameters) : parameterDetailSchema(d.parameters[i])
  /\ "returns_set" \in DOMAIN d => d.returns_set \in BOOLEAN

\* the data of a successful parse: unknown keys are stripped
StripTo(keys, d) == [f \in (DOMAIN d) \cap keys |-> d[f]]

(***************************************************************************)
(* SchemaIntrospector.                                                     *)
(***************************************************************************)
\* faulty variant: the entries that fail validation are dropped and the
\* others kept
parseListing_DropsBadEntries(outcome) ==
  LET r == callRpc(outcome)
  IN IF r.k = "throw" THEN [ok |-> FALSE, reason |-> "threw", objects |-> <<>>]
     ELSE IF r.v.t = "arr"
       THEN [ok |-> TRUE, reason |-> "parsed",
             objects |-> SelectSeq(r.v.v, schemaObjectSchema)]
       ELSE [ok |-> FALSE, reason |-> "unparsable", objects |-> <<>>]

\* the listing part of introspectSchema: the parsed listing, or "none"
\* when the call threw or the result did not parse
parseListing(outcome) ==
  LET r == callRpc(outcome)
  IN IF r.k = "throw" THEN [ok |-> FALSE, reason |-> "threw", objects |-> <<>>]
     ELSE IF /\ r.v.t = "arr"
             /\ \A i \in 1..Len(r.v.v) : schemaObjectSchema(r.v.v[i])
       THEN [ok |-> TRUE, reason |-> "parsed", objects |-> r.v.v]
       ELSE [ok |-> FALSE, reason |-> "unparsable", objects |-> <<>>]

\* Null, or Obj(details): a failed call, a falsy or non-object answer and
\* an answer the details schema rejects all give Null
fetchObjectDetails(outcome) ==
  LET r == callRpc(outcome)
  IN IF r.k = "throw" THEN Null
     ELSE IF r.v.t \notin {"obj", "arr"} THEN Null
     ELSE IF r.v.t # "obj" \/ ~objectDetailsSchema(r.v.v) THEN Null
     ELSE Obj(StripTo(ObjectDetailKeys, r.v.v))

transformParameter(q, description) ==
  [ name |-> q.parameter_name,
    toolParamName |-> camelCase(q.parameter_name),
    pgType |-> q.data_type,
    description |-> description ]

transformColumn(c) ==
  [ name |-> c.column_name,
    pgType |-> c.data_type,
    isNullable |-> c.is_nullable,
    description |-> Coalesce(c.comment, Undefined) ]

\* faulty variant: parameters and columns both taken over when present
transformToToolDefinition_BothFilled(details) ==
  LET description == Coalesce(details.comment, Undefined)
  IN [ toolName |-> camelCase(details.object_name),
       pgName |-> details.object_name,
       type |-> details.object_type,
       description |-> description,
       parameters |->
         IF "parameters" \in DOMAIN details
           THEN [i \in 1..Len(details.parameters) |->
                   transformParameter(details.parameters[i], description)]
           ELSE <<>>,
       pgReturnType |->
         IF "return_type" \in DOMAIN details
           THEN TypeName(details.return_type) ELSE Undefined,
       pgReturnsSet |->
         IF "returns_set" \in DOMAIN details
           THEN Bool(details.returns_set) ELSE Undefined,
       columns |->
         IF "columns" \in DOMAIN details
           THEN [i \in 1..Len(details.columns) |-> transformColumn(details.columns[i])]
           ELSE <<>> ]

transformToToolDefinition(details) ==
  LET description == Coalesce(details.comment, Undefined)
      isFunction == details.object_type = "FUNCTION" /\ "parameters" \in DOMAIN details
      isView == /\ ~isFunction
                /\ details.object_type = "VIEW"
                /\ "columns" \in DOMAIN details
  IN [ toolName |-> camelCase(details.object_name),
       pgName |-> details.object_name,
       type |-> details.object_type,
       description |-> description,
       parameters |->
         IF isFunction
           THEN [i \in 1..Len(details.parameters) |->
                   transformParameter(details.parameters[i], description)]
           ELSE <<>>,
       pgReturnType |->
         IF isFunction /\ "return_type" \in DOMAIN details
           THEN TypeName(details.return_type) ELSE Undefined,
       pgReturnsSet |->
         IF isFunction /\ "returns_set" \in DOMAIN details
           THEN Bool(details.returns_set) ELSE Undefined,
       columns |->
         IF isView
           THEN [i \in 1..Len(details.columns) |-> transformColumn(details.columns[i])]
           ELSE <<>> ]

\* one turn of the loop of introspectSchema: the definitions after it
introspectObject(defs, outcome) ==
  LET details == fetchObjectDetails(outcome)
  IN IF details.t = "null" THEN defs
     ELSE Append(defs, transformToToolDefinition(details.v))

(***************************************************************************)
(* MCPToolFactory: input schema.                                           *)
(***************************************************************************)
\* faulty variant: every parameter made optional
generateInputSchemaShape_Optional(parameters) ==
  LET keys == { parameters[i].toolParamName : i \in 1..Len(parameters) }
      last(key) == CHOOSE i \in 1..Len(parameters) :
                     /\ parameters[i].toolParamName = key
                     /\ \A j \in (i+1)..Len(parameters) :
                          parameters[j].toolParamName # key
  IN [ key \in keys |->
         [ type |-> ZOptional(mapPgTypeToZod(parameters[last(key)].pgType, FALSE)),
           description |-> Undefined ] ]

\* the property the forEach leaves under a key: the last parameter with it
generateInputSchemaShape(parameters) ==
  LET keys == { parameters[i].toolParamName : i \in 1..Len(parameters) }
      last(key) == CHOOSE i \in 1..Len(parameters) :
                     /\ parameters[i].toolParamName = key
                     /\ \A j \in (i+1)..Len(parameters) :
                          parameters[j].toolParamName # key
  IN [ key \in keys |->
         [ type |-> mapPgTypeToZod(parameters[last(key)].pgType, FALSE),
           description |->
             IF IsFalsy(parameters[last(key)].description)
               THEN Undefined ELSE parameters[last(key)].description ] ]

inputSchemaShapeOf(definition) ==
  IF definition.type = "FUNCTION"
    THEN generateInputSchemaShape(definition.parameters)
    ELSE EmptyRecord

(***************************************************************************)
(* McpServer of the SDK, as far as the code relies on it: tool() refuses a *)
(* name that is registered already, and a tools/call request is checked    *)
(* against the input schema before the handler runs.                       *)
(***************************************************************************)
UuidTexts == { "123e4567-e89b-12d3-a456-426614174000" }

NumericTexts == { "12.5" }

DateTexts == { "2024-01-31" }

DateTimeTexts == { "2024-01-31T10:00:00Z" }

RECURSIVE AcceptsValue(_, _)
AcceptsValue(type, x) ==
  CASE type.k = "string" -> x.t = "txt"
    [] type.k = "uuid" -> x.t = "txt" /\ x.v \in UuidTexts
    [] type.k = "numericString" -> x.t = "txt" /\ x.v \in NumericTexts
    [] type.k = "date" -> x.t = "txt" /\ x.v \in DateTexts
    [] type.k = "datetime" -> x.t = "txt" /\ x.v \in DateTimeTexts
    [] type.k = "int" -> x.t = "num"
    [] type.k = "number" -> x.t = "num"
    [] type.k = "bigint" -> x.t = "bigint"
    [] type.k = "boolean" -> x.t = "bool"
    [] type.k = "any" -> TRUE
    [] type.k = "array" ->
         x.t = "arr" /\ \A i \in 1..Len(x.v) : AcceptsValue(type.of, x.v[i])
    [] type.k = "nullable" -> x.t = "null" \/ AcceptsValue(type.of, x)
    [] type.k = "optional" -> x.t = "undefined" \/ AcceptsValue(type.of, x)

\* a key the caller left out is validated as undefined
ArgOrUndefined(args, key) == IF key \in DOMAIN args THEN args[key] ELSE Undefined

AcceptsArgs(shape, args) ==
  \A key \in DOMAIN shape : AcceptsValue(shape[key].type, ArgOrUndefined(args, key))

\* the handler gets the parsed arguments: unknown keys are stripped
ParsedArgs(shape, args) == [key \in (DOMAIN args) \cap (DOMAIN shape) |-> args[key]]

toolAlreadyRegistered(tools, name) ==
  \E i \in 1..Len(tools) : tools[i].name = name

(***************************************************************************)
(* MCPToolFactory.registerTools: one server.tool() per definition, a       *)
(* failure is logged and the loop goes on.                                 *)
(***************************************************************************)
RegisteredTool(definition) ==
  [ name |-> definition.toolName,
    description |->
      IF IsFalsy(definition.description) THEN Undefined ELSE definition.description,
    inputSchema |-> inputSchemaShapeOf(definition),
    definition |-> definition ]

RegisterFailed(name) == [level |-> "error", event |-> "registerFailed", name |-> name]

\* faulty variant: the catch of registerTools without its log entry
RECURSIVE registerTools_Silent(_, _, _)
registerTools_Silent(toolDefinitions, i, acc) ==
  IF i > Len(toolDefinitions) THEN acc
  ELSE LET definition == toolDefinitions[i]
       IN IF toolAlreadyRegistered(acc.tools, definition.toolName)
            THEN registerTools_Silent(toolDefinitions, i + 1, acc)
            ELSE registerTools_Silent(toolDefinitions, i + 1,
                   [acc EXCEPT !.tools = Append(acc.tools, RegisteredTool(definition))])

\* faulty variant: the loop body without its try/catch, so that the first
\* exception of server.tool() ends the loop
RECURSIVE registerTools_StopsAtFailure(_, _, _)
registerTools_StopsAtFailure(toolDefinitions, i, acc) ==
  IF i > Len(toolDefinitions) THEN acc
  ELSE LET definition == toolDefinitions[i]
       IN IF toolAlreadyRegistered(acc.tools, definition.toolName)
            THEN [acc EXCEPT !.logs = acc.logs \cup { RegisterFailed(definition.toolName) }]
            ELSE registerTools_StopsAtFailure(toolDefinitions, i + 1,
                   [acc EXCEPT !.tools = Append(acc.tools, RegisteredTool(definition))])

RECURSIVE registerTools(_, _, _)
registerTools(toolDefinitions, i, acc) ==
  IF i > Len(toolDefinitions) THEN acc
  ELSE LET definition == toolDefinitions[i]
       IN IF toolAlreadyRegistered(acc.tools, definition.toolName)
            THEN registerTools(toolDefinitions, i + 1,
                   [acc EXCEPT !.logs = acc.logs \cup { RegisterFailed(definition.toolName) }])
            ELSE registerTools(toolDefinitions, i + 1,
                   [acc EXCEPT !.tools = Append(acc.tools, RegisteredTool(definition))])

(***************************************************************************)
(* createMcpServer after introspection: register the discovered tools,     *)
(* then the hard-coded getInfo tool; an exception of the latter leaves the *)
(* try block and createMcpServer throws.                                   *)
(***************************************************************************)
N_getInfo == <<"g","e","t","I","n","f","o">>

N_infoType == <<"i","n","f","o","T","y","p","e">>

GetInfoDefinition ==
  [ toolName |-> N_getInfo, pgName |-> <<>>, type |-> "BUILTIN",
    description |-> Undefined, parameters |-> <<>>,
    pgReturnType |-> Undefined, pgReturnsSet |-> Undefined, columns |-> <<>> ]

GetInfoTool ==
  [ name |-> N_getInfo,
    description |-> Undefined,
    inputSchema |->
      [ key \in { N_infoType } |->
          [ type |-> ZOptional(ZString),
            description |-> Txt("Optional type of info to request (e.g., 'version')") ] ],
    definition |-> GetInfoDefinition ]

registerAll(toolDefinitions, logs0) ==
  LET factory == registerTools(toolDefinitions, 1, [tools |-> <<>>, logs |-> logs0])
  IN IF toolAlreadyRegistered(factory.tools, N_getInfo)
       THEN [pc |-> "failed", tools |-> factory.tools, logs |-> factory.logs]
       ELSE [pc |-> "created", tools |-> Append(factory.tools, GetInfoTool),
             logs |-> factory.logs]

(***************************************************************************)
(* The handler registerTools builds for a definition.                      *)
(***************************************************************************)
\* faulty variant: every parameter gets a key, null where the caller gave
\* no value
rpcParamsOf_SendsNull(definition, args) ==
  [ name \in { definition.parameters[i].name : i \in 1..Len(definition.parameters) } |->
      LET i == CHOOSE j \in 1..Len(definition.parameters) :
                 definition.parameters[j].name = name
      IN IF definition.parameters[i].toolParamName \in DOMAIN args
           THEN args[definition.parameters[i].toolParamName]
           ELSE Null ]

\* rpcParams: a catalog name gets the value found under its public name
rpcParamsOf(definition, args) ==
  LET supplied == { i \in 1..Len(definition.parameters) :
                      definition.parameters[i].toolParamName \in DOMAIN args }
      last(name) == CHOOSE i \in supplied :
                      /\ definition.parameters[i].name = name
                      /\ \A j \in supplied :
                           definition.parameters[j].name = name => j <= i
  IN [ name \in { definition.parameters[i].name : i \in supplied } |->
         args[definition.parameters[last(name)].toolParamName] ]

\* faulty variant: the view read under the tool name instead of the catalog name
dispatch_ByToolName(definition, args) ==
  IF definition.type = "VIEW"
    THEN [kind |-> "select", from |-> definition.toolName, columns |-> "*"]
    ELSE [kind |-> "rpc", fn |-> definition.pgName,
          params |-> rpcParamsOf(definition, args)]

\* the single database operation the handler issues
dispatch(definition, args) ==
  IF definition.type = "VIEW"
    THEN [kind |-> "select", from |-> definition.pgName, columns |-> "*"]
    ELSE [kind |-> "rpc", fn |-> definition.pgName,
          params |-> rpcParamsOf(definition, args)]

\* what the wrapper makes of the client's answer to that operation
wrapperResult(op, outcome) ==
  IF op.kind = "select" THEN selectFromView(outcome) ELSE callRpc(outcome)

\* the replacer of JSON.stringify: a bigint becomes its decimal string
RECURSIVE replaceBigInt(_)
replaceBigInt(x) ==
  CASE x.t = "bigint" -> Txt(x.v)
    [] x.t = "arr" -> Arr([i \in 1..Len(x.v) |-> replaceBigInt(x.v[i])])
    [] x.t = "obj" -> Obj([f \in DOMAIN x.v |-> replaceBigInt(x.v[f])])
    [] OTHER -> x

NoContentText(definition) == [kind |-> "nocontent", tool |-> definition.toolName]

JsonText(x) == [kind |-> "json", value |-> replaceBigInt(x)]

ErrorText(message) == [kind |-> "error", message |-> message]

TextContent(text) == [type |-> "text", text |-> text]

SuccessResult(text) == [content |-> << TextContent(text) >>]

ErrorResult(text) == [isError |-> TRUE, content |-> << TextContent(text) >>]

\* faulty variant: the handler without its catch
encodeResult_NoCatch(definition, r) ==
  IF r.k = "throw"
    THEN [thrown |-> r.message]
    ELSE IF r.v.t \in {"undefined", "null"}
      THEN SuccessResult(NoContentText(definition))
      ELSE SuccessResult(JsonText(r.v))

\* the part of the handler after the await: encode, or catch and report
encodeResult(definition, r) ==
  IF r.k = "throw"
    THEN ErrorResult(ErrorText(r.message))
    ELSE IF r.v.t \in {"undefined", "null"}
      THEN SuccessResult(NoContentText(definition))
      ELSE SuccessResult(JsonText(r.v))

\* the hard-coded getInfo handler
getInfoResult(args) ==
  SuccessResult([kind |-> "info",
                 about |-> IF N_infoType \in DOMAIN args /\ ~IsFalsy(args[N_infoType])
                             THEN args[N_infoType].v ELSE ""])

\* the SDK's answer to arguments the input schema rejects
InvalidParamsResult == [protocolError |-> "InvalidParams"]

(***************************************************************************)
(* What callers send and what the database answers.                        *)
(***************************************************************************)
N_extra == <<"e","x","t","r","a">>

ArgValues == { Txt("hello"), Txt("123e4567-e89b-12d3-a456-426614174000") }

\* any value or none under each key of the schema, and maybe a key it lacks
ArgChoices(tool) ==
  UNION { [keys -> ArgValues] : keys \in SUBSET (DOMAIN tool.inputSchema) }
    \cup { [key \in (DOMAIN a) \cup { N_extra } |->
              IF key = N_extra THEN Txt("hello") ELSE a[key]] :
           a \in UNION { [keys -> ArgValues] : keys \in SUBSET (DOMAIN tool.inputSchema) } }

Row1 == Obj([id |-> Num(1)])

DbOutcomes(op) ==
  { [k |-> "error"],
    [k |-> "data", v |-> Null],
    [k |-> "data", v |-> Arr(<<>>)],
    [k |-> "data", v |-> Arr(<< Row1 >>)] }
    \cup IF op.kind = "rpc" THEN { [k |-> "data", v |-> Num(42)] } ELSE {}

(***************************************************************************)
(* State.                                                                  *)
(***************************************************************************)
VARIABLES
  pc,               \* where createMcpServer stands
  listOutcome,      \* how the listing call ended: "none" before it
  rawObjects,       \* the parsed listing
  idx,              \* the listed object whose details are awaited
  fetchOk,          \* per processed object: did the catalog hand over good details
  toolDefinitions,  \* the definitions introspectSchema has collected
  tools,            \* the server's registered tools, in registration order
  logs,             \* what was logged about rejected definitions
  connected,        \* the server is connected to its transport
  introspectCalls,  \* calls of introspectSchema in this instance
  inv,              \* the tool invocations in flight
  catalog,          \* per-request HTTP mode: the objects the schema holds now
  req,              \* per-request HTTP mode: the POST /mcp requests
  conn,             \* per-request HTTP mode: the connection of each request
  funcall,          \* a pure function under evaluation: its input, its result
  proc              \* the process: main, the run function, shutdown

instanceVars ==
  << pc, listOutcome, rawObjects, idx, fetchOk, toolDefinitions, tools, logs,
     connected, introspectCalls, inv >>

httpVars == << catalog, req, conn >>

vars == << instanceVars, httpVars, funcall, proc >>

NoCall == [fn |-> "none"]

NoProcess == [mode |-> "none"]

InvIds == 1..MaxInv

Idle == [st |-> "idle"]

Init ==
  /\ pc = "start"
  /\ listOutcome = "none"
  /\ rawObjects = <<>>
  /\ idx = 1
  /\ fetchOk = <<>>
  /\ toolDefinitions = <<>>
  /\ tools = <<>>
  /\ logs = {}
  /\ connected = FALSE
  /\ introspectCalls = 0
  /\ inv = [i \in InvIds |-> Idle]
  /\ catalog = {}
  /\ req = <<>>
  /\ conn = <<>>
  /\ funcall = NoCall
  /\ proc = NoProcess

(***************************************************************************)
(* createMcpServer.                                                        *)
(***************************************************************************)
\* introspectSchema has returned defs: register, add getInfo, return or throw
FinishCreate(defs) ==
  LET done == registerAll(defs, logs)
  IN /\ pc' = done.pc
     /\ tools' = done.tools
     /\ logs' = done.logs

\* new McpServer, new client, introspectSchema up to its first await
StartCreate ==
  /\ pc = "start"
  /\ pc' = "listing"
  /\ introspectCalls' = introspectCalls + 1
  /\ UNCHANGED << listOutcome, rawObjects, idx, fetchOk, toolDefinitions, tools,
                  logs, connected, inv >>
  /\ UNCHANGED << httpVars, funcall, proc >>

\* rpc_get_schema_objects answers
ListReturn ==
  /\ pc = "listing"
  /\ \E outcome \in ListOutcomes :
       LET listing == parseListing(outcome)
       IN /\ listOutcome' = listing.reason
          /\ rawObjects' = listing.objects
          /\ IF listing.ok /\ Len(listing.objects) > 0
               THEN pc' = "fetching" /\ UNCHANGED << tools, logs >>
               ELSE FinishCreate(<<>>)
  /\ UNCHANGED << idx, fetchOk, toolDefinitions, connected, introspectCalls, inv >>
  /\ UNCHANGED << httpVars, funcall, proc >>

\* rpc_get_object_details answers for rawObjects[idx]
FetchReturn ==
  /\ pc = "fetching"
  /\ \E outcome \in DetailOutcomes(rawObjects[idx]) :
       LET defs == introspectObject(toolDefinitions, outcome)
       IN /\ toolDefinitions' = defs
          /\ fetchOk' = Append(fetchOk, IsGoodDetail(rawObjects[idx], outcome))
          /\ idx' = idx + 1
          /\ IF idx < Len(rawObjects)
               THEN UNCHANGED << pc, tools, logs >>
               ELSE FinishCreate(defs)
  /\ UNCHANGED << listOutcome, rawObjects, connected, introspectCalls, inv >>
  /\ UNCHANGED << httpVars, funcall, proc >>

\* faulty variant: connecting without waiting for createMcpServer
ConnectEnabled_NoAwait == pc \in {"listing", "fetching", "created"}

\* the run function connects the server it got from createMcpServer
ConnectEnabled == pc = "created"

Connect ==
  /\ ConnectEnabled
  /\ ~connected
  /\ connected' = TRUE
  /\ UNCHANGED << pc, listOutcome, rawObjects, idx, fetchOk, toolDefinitions,
                  tools, logs, introspectCalls, inv >>
  /\ UNCHANGED << httpVars, funcall, proc >>

(***************************************************************************)
(* Tool invocations.                                                       *)
(***************************************************************************)
\* a tools/call request: validation, then the handler up to its await
CallTool(i) ==
  /\ connected
  /\ inv[i].st = "idle"
  /\ \E t \in 1..Len(tools) : \E args \in ArgChoices(tools[t]) :
       LET tool == tools[t]
           call == [tool |-> t, args |-> args]
       IN inv' = [inv EXCEPT ![i] =
            IF ~AcceptsArgs(tool.inputSchema, args)
              THEN [st |-> "done", call |-> call, ops |-> <<>>,
                    result |-> InvalidParamsResult]
            ELSE IF tool.definition.type = "BUILTIN"
              THEN [st |-> "done", call |-> call, ops |-> <<>>,
                    result |-> getInfoResult(ParsedArgs(tool.inputSchema, args))]
            ELSE [st |-> "awaiting", call |-> call,
                  ops |-> << dispatch(tool.definition,
                                      ParsedArgs(tool.inputSchema, args)) >>]]
  /\ UNCHANGED << pc, listOutcome, rawObjects, idx, fetchOk, toolDefinitions,
                  tools, logs, connected, introspectCalls >>
  /\ UNCHANGED << httpVars, funcall, proc >>

\* faulty variant: the definition kept in a field all handlers share, so
\* that a handler resumed while another call is in flight reads the other's
handlerDefinition_Shared(i) ==
  LET others == { j \in DOMAIN inv : j # i /\ inv[j].st = "awaiting" }
  IN IF others = {} THEN tools[inv[i].call.tool].definition
     ELSE tools[inv[CHOOSE j \in others : TRUE].call.tool].definition

\* the definition the handler of an invocation closes over: the loop
\* variable of registerTools, one binding per registered tool
handlerDefinition(i) == tools[inv[i].call.tool].definition

\* faulty variant: the handler noting a failed read or call in the
\* definition object it closes over
DbReturn_MarksDefinition(i) ==
  /\ inv[i].st = "awaiting"
  /\ \E outcome \in DbOutcomes(inv[i].ops[1]) :
       /\ inv' = [inv EXCEPT ![i] =
            [st |-> "done", call |-> inv[i].call, ops |-> inv[i].ops,
             outcome |-> outcome,
             result |-> encodeResult(handlerDefinition(i),
                                     wrapperResult(inv[i].ops[1], outcome))]]
       /\ tools' = IF outcome.k = "error"
                     THEN [tools EXCEPT ![inv[i].call.tool].definition.description =
                             Txt("unavailable")]
                     ELSE tools
  /\ UNCHANGED << pc, listOutcome, rawObjects, idx, fetchOk, toolDefinitions,
                  logs, connected, introspectCalls >>
  /\ UNCHANGED << httpVars, funcall, proc >>

\* faulty variant: a failed read or call is issued a second time
DbReturn_Retries(i) ==
  /\ inv[i].st = "awaiting"
  /\ \E outcome \in DbOutcomes(inv[i].ops[1]) :
       inv' = [inv EXCEPT ![i] =
         IF outcome.k = "error" /\ Len(inv[i].ops) = 1
           THEN [st |-> "awaiting", call |-> inv[i].call,
                 ops |-> Append(inv[i].ops, inv[i].ops[1])]
           ELSE [st |-> "done", call |-> inv[i].call, ops |-> inv[i].ops,
                 outcome |-> outcome,
                 result |-> encodeResult(handlerDefinition(i),
                                         wrapperResult(inv[i].ops[1], outcome))]]
  /\ UNCHANGED << pc, listOutcome, rawObjects, idx, fetchOk, toolDefinitions,
                  tools, logs, connected, introspectCalls >>
  /\ UNCHANGED << httpVars, funcall, proc >>

\* faulty variant: the handler without its catch, so that a failed read or
\* call leaves the invocation with an unhandled rejection and no result
DbReturn_Rethrows(i) ==
  /\ inv[i].st = "awaiting"
  /\ \E outcome \in DbOutcomes(inv[i].ops[1]) :
       inv' = [inv EXCEPT ![i] =
         IF outcome.k = "error"
           THEN [st |-> "faulted", call |-> inv[i].call, ops |-> inv[i].ops,
                 outcome |-> outcome]
           ELSE [st |-> "done", call |-> inv[i].call, ops |-> inv[i].ops,
                 outcome |-> outcome,
                 result |-> encodeResult(handlerDefinition(i),
                                         wrapperResult(inv[i].ops[1], outcome))]]
  /\ UNCHANGED << pc, listOutcome, rawObjects, idx, fetchOk, toolDefinitions,
                  tools, logs, connected, introspectCalls >>
  /\ UNCHANGED << httpVars, funcall, proc >>

\* the database answers; the handler encodes and returns
DbReturn(i) ==
  /\ inv[i].st = "awaiting"
  /\ \E outcome \in DbOutcomes(inv[i].ops[1]) :
       inv' = [inv EXCEPT ![i] =
         [st |-> "done", call |-> inv[i].call, ops |-> inv[i].ops,
          outcome |-> outcome,
          result |-> encodeResult(handlerDefinition(i),
                                  wrapperResult(inv[i].ops[1], outcome))]]
  /\ UNCHANGED << pc, listOutcome, rawObjects, idx, fetchOk, toolDefinitions,
                  tools, logs, connected, introspectCalls >>
  /\ UNCHANGED << httpVars, funcall, proc >>

\* the response is sent
Respond(i) ==
  /\ inv[i].st = "done"
  /\ inv' = [inv EXCEPT ![i] = Idle]
  /\ UNCHANGED << pc, listOutcome, rawObjects, idx, fetchOk, toolDefinitions,
                  tools, logs, connected, introspectCalls >>
  /\ UNCHANGED << httpVars, funcall, proc >>

Next ==
  \/ StartCreate
  \/ ListReturn
  \/ FetchReturn
  \/ Connect
  \/ \E i \in InvIds : CallTool(i)
  \/ \E i \in InvIds : DbReturn(i)
  \/ \E i \in InvIds : Respond(i)

Spec == Init /\ [][Next]_vars

(***************************************************************************)
(* One served instance with several invocations in flight: the process     *)
(* after createMcpServer and connect, for a catalog whose objects all have *)
(* good details.                                                           *)
(***************************************************************************)
MaxConc == 2

ConcIds == 1..MaxConc

ServedCatalogs ==
  { << ViewUserList, FunctionAddNote >>,
    << ViewUserList2, FunctionDupArg >>,
    << FunctionAddNote, ViewUserList2 >> }

\* the loop of introspectSchema over the answers of the detail calls
RECURSIVE introspectAll(_, _, _)
introspectAll(outcomes, i, defs) ==
  IF i > Len(outcomes) THEN defs
  ELSE introspectAll(outcomes, i + 1, introspectObject(defs, outcomes[i]))

\* the state after createMcpServer and connect, with no invocation yet
ServedInit(ids) ==
  \E objects \in ServedCatalogs :
    LET defs == introspectAll([j \in 1..Len(objects) |->
                                 [k |-> "data", v |-> Obj(objects[j])]], 1, <<>>)
        done == registerAll(defs, {})
    IN /\ pc = done.pc
       /\ listOutcome = "parsed"
       /\ rawObjects = [j \in 1..Len(objects) |-> ListingEntry(objects[j])]
       /\ idx = Len(objects) + 1
       /\ fetchOk = [j \in 1..Len(objects) |-> TRUE]
       /\ toolDefinitions = defs
       /\ tools = done.tools
       /\ logs = done.logs
       /\ connected = TRUE
       /\ introspectCalls = 1
       /\ inv = [i \in ids |-> Idle]
       /\ catalog = {}
       /\ req = <<>>
       /\ conn = <<>>
       /\ funcall = NoCall
       /\ proc = NoProcess

InitServing == ServedInit(ConcIds)

NextServing ==
  \/ \E i \in ConcIds : CallTool(i)
  \/ \E i \in ConcIds : DbReturn(i)
  \/ \E i \in ConcIds : Respond(i)

SpecServing == InitServing /\ [][NextServing]_vars

(***************************************************************************)
(* The same served instance under fairness: the database answers every     *)
(* operation it was sent, and the event loop runs every continuation that  *)
(* is ready.                                                               *)
(***************************************************************************)
InitAnswering == ServedInit(InvIds)

NextAnswering ==
  \/ \E i \in InvIds : CallTool(i)
  \/ \E i \in InvIds : DbReturn(i)
  \/ \E i \in InvIds : Respond(i)

SpecAnswering ==
  /\ InitAnswering
  /\ [][NextAnswering]_vars
  /\ \A i \in InvIds : WF_vars(DbReturn(i)) /\ WF_vars(Respond(i))

(***************************************************************************)
(* The stateless HTTP transport: every POST /mcp builds its own server.    *)
(* The schema changes while requests are in flight; each catalog call is   *)
(* answered from the schema as it is when the call is answered.  Here the  *)
(* client keeps its connection until the response is out.                  *)
(***************************************************************************)
MaxReq == 2

ReqIds == 1..MaxReq

\* the objects the schema can hold, in the order the listing reports them
HttpSchemaObjects == << ViewUserList, ViewGetInfo >>

Catalogs == SUBSET (1..Len(HttpSchemaObjects))

\* rpc_get_schema_objects on the schema cat
RECURSIVE listingOf(_, _)
listingOf(cat, j) ==
  IF j > Len(HttpSchemaObjects) THEN <<>>
  ELSE (IF j \in cat THEN << ListingEntry(HttpSchemaObjects[j]) >> ELSE <<>>)
       \o listingOf(cat, j + 1)

holds(cat, entry) ==
  \E j \in cat : ListingEntry(HttpSchemaObjects[j]) = entry

\* rpc_get_object_details on the schema cat: a view that is gone gives the
\* empty object, a function that is gone the error object
detailsOf(cat, entry) ==
  [ k |-> "data",
    v |-> IF holds(cat, entry)
            THEN Obj(CatalogObjectNamed(entry.object_name, entry.object_type))
          ELSE IF entry.object_type = "VIEW" THEN Obj(EmptyRecord)
          ELSE Obj([error |-> "Function details not found or ambiguous"]) ]

InitHttp ==
  /\ pc = "start"
  /\ listOutcome = "none"
  /\ rawObjects = <<>>
  /\ idx = 1
  /\ fetchOk = <<>>
  /\ toolDefinitions = <<>>
  /\ tools = <<>>
  /\ logs = {}
  /\ connected = FALSE
  /\ introspectCalls = 0
  /\ inv = <<>>
  /\ catalog \in Catalogs
  /\ req = [r \in ReqIds |-> Idle]
  /\ conn = [r \in ReqIds |-> "none"]
  /\ funcall = NoCall
  /\ proc = NoProcess

\* a view or function is created or dropped
CatalogChange ==
  /\ \E j \in 1..Len(HttpSchemaObjects) :
       catalog' = IF j \in catalog THEN catalog \ { j } ELSE catalog \cup { j }
  /\ UNCHANGED << req, conn, instanceVars, funcall, proc >>

\* createMcpServer of one request has its definitions: register, add getInfo;
\* a throw is caught by the POST handler, which answers 500
httpCreated(r, atListing, objects, seen, defs) ==
  LET done == registerAll(defs, {})
  IN IF done.pc = "created"
       THEN [ st |-> "serving", arrived |-> req[r].arrived,
              introspectCalls |-> req[r].introspectCalls,
              atListing |-> atListing, rawObjects |-> objects, seen |-> seen,
              toolDefinitions |-> defs, tools |-> done.tools ]
       ELSE [ st |-> "failed", status |-> 500 ]

\* faulty variant: a server kept from another request is used again
HttpPost_ReusesInstance(r) ==
  /\ req[r].st = "idle"
  /\ req' = [req EXCEPT ![r] =
       IF \E q \in ReqIds : req[q].st = "serving"
         THEN [ req[CHOOSE q \in ReqIds : req[q].st = "serving"]
                  EXCEPT !.arrived = catalog, !.introspectCalls = 0 ]
         ELSE [ st |-> "listing", arrived |-> catalog, introspectCalls |-> 1 ]]
  /\ conn' = [conn EXCEPT ![r] = "open"]
  /\ UNCHANGED << catalog, instanceVars, funcall, proc >>

\* POST /mcp arrives: new server, new client, introspectSchema up to its
\* first await
HttpPost(r) ==
  /\ req[r].st = "idle"
  /\ req' = [req EXCEPT ![r] =
       [ st |-> "listing", arrived |-> catalog, introspectCalls |-> 1 ]]
  /\ conn' = [conn EXCEPT ![r] = "open"]
  /\ UNCHANGED << catalog, instanceVars, funcall, proc >>

\* rpc_get_schema_objects answers for the request
HttpListReturn(r) ==
  /\ req[r].st = "listing"
  /\ LET listing == parseListing([k |-> "data", v |-> Arr(listingOf(catalog, 1))])
     IN req' = [req EXCEPT ![r] =
          IF listing.ok /\ Len(listing.objects) > 0
            THEN [ st |-> "fetching", arrived |-> req[r].arrived,
                   introspectCalls |-> req[r].introspectCalls,
                   atListing |-> catalog, rawObjects |-> listing.objects,
                   idx |-> 1, seen |-> <<>>, toolDefinitions |-> <<>> ]
            ELSE httpCreated(r, catalog, listing.objects, <<>>, <<>>)]
  /\ UNCHANGED << catalog, conn, instanceVars, funcall, proc >>

\* rpc_get_object_details answers for the object the request's loop is at
HttpFetchReturn(r) ==
  /\ req[r].st = "fetching"
  /\ LET entry == req[r].rawObjects[req[r].idx]
         defs == introspectObject(req[r].toolDefinitions, detailsOf(catalog, entry))
         seen == Append(req[r].seen, holds(catalog, entry))
     IN req' = [req EXCEPT ![r] =
          IF req[r].idx < Len(req[r].rawObjects)
            THEN [ req[r] EXCEPT !.idx = req[r].idx + 1, !.seen = seen,
                                 !.toolDefinitions = defs ]
            ELSE httpCreated(r, req[r].atListing, req[r].rawObjects, seen, defs)]
  /\ UNCHANGED << catalog, conn, instanceVars, funcall, proc >>

\* connect and handleRequest are through: the response went out and the
\* close listener is set
HttpRespond(r) ==
  /\ req[r].st = "serving"
  /\ req' = [req EXCEPT ![r] = [ st |-> "responded", tools |-> req[r].tools ]]
  /\ UNCHANGED << catalog, conn, instanceVars, funcall, proc >>

\* connect or handleRequest throws: the catch closes transport and server
\* and answers 500 when no header went out
HttpHandleFails(r) ==
  /\ req[r].st = "serving"
  /\ req' = [req EXCEPT ![r] = [ st |-> "failed", status |-> 500 ]]
  /\ UNCHANGED << catalog, conn, instanceVars, funcall, proc >>

\* the client goes away while createMcpServer, connect or handleRequest is
\* awaited: the response emits close, and no listener is set yet
HttpConnectionLost(r) ==
  /\ req[r].st \in {"listing", "fetching", "serving"}
  /\ conn[r] = "open"
  /\ conn' = [conn EXCEPT ![r] = "closed"]
  /\ UNCHANGED << catalog, req, instanceVars, funcall, proc >>

\* the response has ended or the client has gone: the connection closes, the
\* listener runs and closes transport and server of the request
HttpClose(r) ==
  /\ req[r].st = "responded"
  /\ conn[r] = "open"
  /\ req' = [req EXCEPT ![r] = [ st |-> "closed" ]]
  /\ conn' = [conn EXCEPT ![r] = "closed"]
  /\ UNCHANGED << catalog, instanceVars, funcall, proc >>

NextHttp ==
  \/ CatalogChange
  \/ \E r \in ReqIds : HttpPost(r)
  \/ \E r \in ReqIds : HttpListReturn(r)
  \/ \E r \in ReqIds : HttpFetchReturn(r)
  \/ \E r \in ReqIds : HttpRespond(r)
  \/ \E r \in ReqIds : HttpClose(r)

SpecHttp == InitHttp /\ [][NextHttp]_vars

(***************************************************************************)
(* The same POST handler with the connection of each request: the client   *)
(* may go away at any time, and the close listener is set only after       *)
(* handleRequest has returned.  The schema stays as it is.                 *)
(***************************************************************************)
NextHttpClose ==
  \/ \E r \in ReqIds : HttpPost(r)
  \/ \E r \in ReqIds : HttpListReturn(r)
  \/ \E r \in ReqIds : HttpFetchReturn(r)
  \/ \E r \in ReqIds : HttpRespond(r)
  \/ \E r \in ReqIds : HttpHandleFails(r)
  \/ \E r \in ReqIds : HttpConnectionLost(r)
  \/ \E r \in ReqIds : HttpClose(r)

SpecHttpClose == InitHttp /\ [][NextHttpClose]_vars

(***************************************************************************)
(* The pure functions, each applied to inputs of a bounded set: the type   *)
(* mapper, the name conversion, and the path from one detail payload to    *)
(* the definition and the input schema of its tool.                        *)
(***************************************************************************)
\* type names the switch has no label for: udt_name of smallint, a family
\* name, other catalog types, the empty string
OtherTypeNames ==
  { <<"i","n","t","2">>,
    <<"d","o","u","b","l","e">>,
    <<"i","n","e","t">>,
    <<"m","o","n","e","y">>,
    <<"x","m","l">>,
    <<>> }

\* a type name as the catalog spells it: plain, _name, name[]
spelled(element, form) ==
  CASE form = "plain" -> element
    [] form = "underscore" -> << "_" >> \o element
    [] form = "brackets" -> element \o << "[", "]" >>

TypeInputs ==
  { [ fn |-> "mapPgTypeToZod", st |-> "called", element |-> e, form |-> f,
      pgType |-> spelled(e, f), isNullable |-> b ] :
    e \in KnownTypeNames \cup OtherTypeNames,
    f \in {"plain", "underscore", "brackets"}, b \in BOOLEAN }

MaxNameLen == 4

NameChars == { "a", "B", "1", "_" }

NameInputs ==
  { [ fn |-> "camelCase", st |-> "called", name |-> n ] :
    n \in SeqsUpTo(NameChars, MaxNameLen) \ { <<>> } }

Parameter(name, type, position) ==
  [ parameter_name |-> name, data_type |-> type, position |-> position ]

\* parameter lists of a detail payload: those of the catalog's functions, a
\* json parameter, none, an OUT parameter between two IN parameters (the
\* payload lists the IN parameters only), and positions out of order or
\* repeated
ParameterLists ==
  { FunctionAddNote.parameters,
    FunctionDupArg.parameters,
    << Parameter(<<"p","_","d","o","c">>, T_jsonb, 1) >>,
    <<>>,
    << Parameter(<<"p","_","i","d">>, T_uuid, 1), Parameter(<<"p","_","t","e","x","t">>, T_text, 3) >>,
    << Parameter(<<"p","_","t","e","x","t">>, T_text, 2), Parameter(<<"p","_","i","d">>, T_uuid, 1) >>,
    << Parameter(<<"p","_","i","d">>, T_uuid, 1), Parameter(<<"p","_","t","e","x","t">>, T_text, 1) >> }

\* a payload of rpc_get_object_details, with or without the fields of a
\* view and with or without those of a function
detailPayload(type, comment, columns, parameters) ==
  LET common == [ object_name |-> N_add_note, object_type |-> type, comment |-> comment ]
  IN CASE columns.has /\ parameters.has ->
            [ object_name |-> common.object_name, object_type |-> type,
              comment |-> comment, columns |-> columns.v,
              parameters |-> parameters.v, return_type |-> T_jsonb,
              returns_set |-> FALSE ]
       [] columns.has /\ ~parameters.has ->
            [ object_name |-> common.object_name, object_type |-> type,
              comment |-> comment, columns |-> columns.v ]
       [] ~columns.has /\ parameters.has ->
            [ object_name |-> common.object_name, object_type |-> type,
              comment |-> comment, parameters |-> parameters.v,
              return_type |-> T_jsonb, returns_set |-> FALSE ]
       [] OTHER -> common

DetailInputs ==
  { [ fn |-> "discover", st |-> "called",
      payload |-> detailPayload(type, comment, columns, parameters) ] :
    type \in ObjectTypes,
    comment \in { Null, Txt(""), Txt("Adds a note to a user.") },
    columns \in { [has |-> FALSE], [has |-> TRUE, v |-> ViewUserList.columns] },
    parameters \in { [has |-> FALSE] }
                    \cup { [has |-> TRUE, v |-> q] : q \in ParameterLists } }

(***************************************************************************)
(* Results on their way from the database to the caller.  The REST layer   *)
(* writes an int8 value as a JSON number literal; the client parses the    *)
(* body with JSON.parse, which gives the nearest double (ties to the even  *)
(* mantissa): exact up to 2^53, every second integer above it.  An integer *)
(* is written as offset + d, where offset is 0 or 2^53.                    *)
(***************************************************************************)
Int8Literal(offset, d) == [t |-> "int8", offset |-> offset, d |-> d]

\* the JavaScript number 2^53 + d
NumOver53(d) == [t |-> "num", v |-> d, over |-> "2^53"]

\* JSON.parse of an integer literal
parseNumberLiteral(lit) ==
  IF lit.offset = "0" THEN Num(lit.d)
  ELSE IF lit.d % 2 = 0 THEN NumOver53(lit.d)
  ELSE IF lit.d % 4 = 1 THEN NumOver53(lit.d - 1)
  ELSE NumOver53(lit.d + 1)

\* the data the client hands to the wrapper for a response body
RECURSIVE parseBody(_)
parseBody(x) ==
  CASE x.t = "int8" -> parseNumberLiteral(x)
    [] x.t = "arr" -> Arr([i \in 1..Len(x.v) |-> parseBody(x.v[i])])
    [] x.t = "obj" -> Obj([f \in DOMAIN x.v |-> parseBody(x.v[f])])
    [] OTHER -> x

\* int8 values a column or a return value can hold: a small one and the
\* ones from 2^53 on
MaxOver53 == 3

Int8Values ==
  { Int8Literal("0", 42) } \cup { Int8Literal("2^53", d) : d \in 0..MaxOver53 }

\* response bodies: a scalar, rows of a view with a bigint column, a json
\* document with a bigint two levels down, values of other types, null
Bodies ==
  { Null, Txt("hello"), Bool(TRUE), Arr(<<>>), Obj([note |-> Txt("hello")]) }
    \cup Int8Values
    \cup { Arr(<< Obj([id |-> n, name |-> Txt("hello")]) >>) : n \in Int8Values }
    \cup { Obj([total |-> Arr(<< Txt("hello"), Obj([count |-> n]) >>)]) : n \in Int8Values }

EncodeInputs ==
  { [ fn |-> "encode", st |-> "called", body |-> x ] : x \in Bodies }

\* introspectSchema as a whole, with the catalog answering every detail
\* call with the details of the object: the definitions it resolves to and
\* the number of detail calls it has issued
introspectSchema(outcome) ==
  LET listing == parseListing(outcome)
      answers == [j \in 1..Len(listing.objects) |->
                    [k |-> "data",
                     v |-> Obj(CatalogObjectNamed(listing.objects[j].object_name,
                                                  listing.objects[j].object_type))]]
  IN [ definitions |-> introspectAll(answers, 1, <<>>),
       detailCalls |-> Len(listing.objects) ]

IntrospectInputs ==
  { [ fn |-> "introspectSchema", st |-> "called", listing |-> outcome ] :
    outcome \in ListOutcomes }

\* invocations of a function tool: the tool registered for a function with
\* one of the parameter lists, called with any of the argument maps
HandlerInputs ==
  { [ fn |-> "handler", st |-> "called", definition |-> d, args |-> a ] :
    d \in { transformToToolDefinition([FunctionAddNote EXCEPT !.parameters = q]) :
              q \in ParameterLists },
    a \in UNION { ArgChoices(RegisteredTool(transformToToolDefinition(
                     [FunctionAddNote EXCEPT !.parameters = q]))) :
                  q \in ParameterLists } }

MaxDefs == 3

\* definition lists handed to registerTools: what introspectSchema can
\* return for listings of the catalog's objects
DefinitionLists ==
  SeqsUpTo({ transformToToolDefinition(o) : o \in CatalogObjects }, MaxDefs)

RegisterInputs ==
  { [ fn |-> "registerTools", st |-> "called", definitions |-> q ] :
    q \in DefinitionLists }

InitFunctions ==
  /\ pc = "start"
  /\ listOutcome = "none"
  /\ rawObjects = <<>>
  /\ idx = 1
  /\ fetchOk = <<>>
  /\ toolDefinitions = <<>>
  /\ tools = <<>>
  /\ logs = {}
  /\ connected = FALSE
  /\ introspectCalls = 0
  /\ inv = <<>>
  /\ catalog = {}
  /\ req = <<>>
  /\ conn = <<>>
  /\ \/ funcall \in TypeInputs
     \/ funcall \in NameInputs
     \/ funcall \in DetailInputs
     \/ funcall \in RegisterInputs
     \/ funcall \in EncodeInputs
     \/ funcall \in IntrospectInputs
     \/ funcall \in HandlerInputs
  /\ proc = NoProcess

\* mapPgTypeToZod returns; the default branch has warned or not
ApplyMapPgTypeToZod ==
  /\ funcall.fn = "mapPgTypeToZod"
  /\ funcall.st = "called"
  /\ funcall' =
       [ fn |-> funcall.fn, st |-> "returned", element |-> funcall.element,
         form |-> funcall.form, pgType |-> funcall.pgType,
         isNullable |-> funcall.isNullable,
         result |-> mapPgTypeToZod(funcall.pgType, funcall.isNullable),
         warned |-> warnsUnknownType(funcall.pgType) ]
  /\ UNCHANGED << instanceVars, httpVars, proc >>

\* camelCase returns
ApplyCamelCase ==
  /\ funcall.fn = "camelCase"
  /\ funcall.st = "called"
  /\ funcall' = [ fn |-> funcall.fn, st |-> "returned", name |-> funcall.name,
                  result |-> camelCase(funcall.name) ]
  /\ UNCHANGED << instanceVars, httpVars, proc >>

\* one payload through fetchObjectDetails, transformToToolDefinition and
\* the registration of its tool
ApplyDiscover ==
  /\ funcall.fn = "discover"
  /\ funcall.st = "called"
  /\ LET details == fetchObjectDetails([k |-> "data", v |-> Obj(funcall.payload)])
     IN funcall' =
          IF details.t = "null"
            THEN [ fn |-> funcall.fn, st |-> "returned", payload |-> funcall.payload,
                   skipped |-> TRUE ]
            ELSE [ fn |-> funcall.fn, st |-> "returned", payload |-> funcall.payload,
                   skipped |-> FALSE,
                   definition |-> transformToToolDefinition(details.v),
                   tool |-> RegisteredTool(transformToToolDefinition(details.v)) ]
  /\ UNCHANGED << instanceVars, httpVars, proc >>

\* registerTools on a fresh server returns
ApplyRegisterTools ==
  /\ funcall.fn = "registerTools"
  /\ funcall.st = "called"
  /\ LET factory == registerTools(funcall.definitions, 1, [tools |-> <<>>, logs |-> {}])
     IN funcall' = [ fn |-> funcall.fn, st |-> "returned",
                     definitions |-> funcall.definitions,
                     tools |-> factory.tools, logs |-> factory.logs ]
  /\ UNCHANGED << instanceVars, httpVars, proc >>

\* a call of the function dup_arg is answered with a body: the client
\* parses it, the wrapper returns the data, the handler encodes it
ApplyEncode ==
  /\ funcall.fn = "encode"
  /\ funcall.st = "called"
  /\ LET definition == transformToToolDefinition(FunctionDupArg)
         rawResult == callRpc([k |-> "data", v |-> parseBody(funcall.body)])
     IN funcall' = [ fn |-> funcall.fn, st |-> "returned", body |-> funcall.body,
                     result |-> encodeResult(definition, rawResult) ]
  /\ UNCHANGED << instanceVars, httpVars, proc >>

\* introspectSchema resolves
ApplyIntrospectSchema ==
  /\ funcall.fn = "introspectSchema"
  /\ funcall.st = "called"
  /\ LET result == introspectSchema(funcall.listing)
     IN funcall' = [ fn |-> funcall.fn, st |-> "returned", listing |-> funcall.listing,
                     definitions |-> result.definitions,
                     detailCalls |-> result.detailCalls ]
  /\ UNCHANGED << instanceVars, httpVars, proc >>

\* a tools/call request for a function tool: validation, then the handler
\* up to its database call
ApplyHandler ==
  /\ funcall.fn = "handler"
  /\ funcall.st = "called"
  /\ LET shape == inputSchemaShapeOf(funcall.definition)
     IN funcall' =
          IF AcceptsArgs(shape, funcall.args)
            THEN [ fn |-> funcall.fn, st |-> "returned",
                   definition |-> funcall.definition, args |-> funcall.args,
                   accepted |-> TRUE,
                   op |-> dispatch(funcall.definition, ParsedArgs(shape, funcall.args)) ]
            ELSE [ fn |-> funcall.fn, st |-> "returned",
                   definition |-> funcall.definition, args |-> funcall.args,
                   accepted |-> FALSE ]
  /\ UNCHANGED << instanceVars, httpVars, proc >>

NextFunctions ==
  \/ ApplyMapPgTypeToZod
  \/ ApplyCamelCase
  \/ ApplyDiscover
  \/ ApplyRegisterTools
  \/ ApplyEncode
  \/ ApplyIntrospectSchema
  \/ ApplyHandler

SpecFunctions == InitFunctions /\ [][NextFunctions]_vars

(***************************************************************************)
(* The process: main calls the run function of the configured transport.   *)
(* The persistent HTTP mode and the stdio mode create one server at start; *)
(* the persistent HTTP mode closes listener, transport and server on       *)
(* SIGTERM and SIGINT.                                                     *)
(***************************************************************************)
MaxServed == 2

MaxSignals == 2

Modes == { "http", "stdio" }

\* the schemas a process can start on: one createMcpServer succeeds on, and
\* one whose view get_info takes the name of the built-in tool
StartupCatalogs == { << ViewUserList, FunctionAddNote >>, << ViewGetInfo >> }

\* createMcpServer returns its server (TRUE) or throws (FALSE)
createMcpServerReturns(objects) ==
  registerAll(introspectAll([j \in 1..Len(objects) |->
                               [k |-> "data", v |-> Obj(objects[j])]], 1, <<>>),
              {}).pc = "created"

\* main has loaded the configuration and called the run function, which
\* awaits createMcpServer
Started(mode) ==
  [ mode |-> mode, at |-> "creating", failedAt |-> "none",
    server |-> "none", transport |-> "none", listener |-> "none",
    served |-> 0, signals |-> 0, closeCalls |-> <<>>, callbacks |-> <<>>,
    errors |-> FALSE, exitCode |-> "none" ]

InitProcess ==
  /\ pc = "start"
  /\ listOutcome = "none"
  /\ rawObjects = <<>>
  /\ idx = 1
  /\ fetchOk = <<>>
  /\ toolDefinitions = <<>>
  /\ tools = <<>>
  /\ logs = {}
  /\ connected = FALSE
  /\ introspectCalls = 0
  /\ inv = <<>>
  /\ catalog = {}
  /\ req = <<>>
  /\ conn = <<>>
  /\ funcall = NoCall
  /\ proc \in { Started(mode) : mode \in Modes }

\* faulty variant: the catch of the run function logs the error and the
\* function goes on
setupFailed_Swallowed(p, at) ==
  [ p EXCEPT !.failedAt = at,
             !.at = IF p.mode = "http" THEN "listenCalled" ELSE "running",
             !.listener = IF p.mode = "http" THEN "starting" ELSE "none" ]

\* the catch of the run function rethrows, the promise of the run function
\* rejects, the catch of main calls process.exit(1)
setupFailed(p, at) ==
  [ p EXCEPT !.failedAt = at, !.at = "exited", !.exitCode = "1" ]

\* process.exit(code)
exited(p, code) == [ p EXCEPT !.at = "exited", !.exitCode = code ]

\* createMcpServer returns or throws
CreateReturns ==
  /\ proc.mode \in Modes
  /\ proc.at = "creating"
  /\ \E objects \in StartupCatalogs :
       proc' = IF createMcpServerReturns(objects)
                 THEN [ proc EXCEPT !.at = "connecting", !.server = "created" ]
                 ELSE setupFailed(proc, "create")
  /\ UNCHANGED << instanceVars, httpVars, funcall >>

\* server.connect(transport) returns or throws; the HTTP run function goes
\* on to app.listen and sets its signal handlers, the stdio run function
\* returns with the transport reading stdin
ConnectReturns ==
  /\ proc.mode \in Modes
  /\ proc.at = "connecting"
  /\ \E ok \in BOOLEAN :
       proc' = IF ~ok THEN setupFailed(proc, "connect")
               ELSE IF proc.mode = "http"
                 THEN [ proc EXCEPT !.server = "connected", !.transport = "open",
                                    !.at = "listenCalled", !.listener = "starting" ]
                 ELSE [ proc EXCEPT !.server = "connected", !.transport = "open",
                                    !.at = "running" ]
  /\ UNCHANGED << instanceVars, httpVars, funcall >>

\* the listener is up and the run function resolves, or the listener emits
\* error, the run function rejects and main exits
ListenReturns ==
  /\ proc.mode = "http"
  /\ proc.at = "listenCalled"
  /\ proc.listener = "starting"
  /\ \E ok \in BOOLEAN :
       proc' = IF ok THEN [ proc EXCEPT !.at = "running", !.listener = "listening" ]
               ELSE [ setupFailed(proc, "listen") EXCEPT !.listener = "closed" ]
  /\ UNCHANGED << instanceVars, httpVars, funcall >>

\* a request is accepted and served: by the listener's POST handler, or
\* from stdin by the connected transport
ServeRequest ==
  /\ proc.mode \in Modes
  /\ proc.exitCode = "none"
  /\ proc.served < MaxServed
  /\ \/ proc.mode = "http" /\ proc.listener = "listening"
     \/ proc.mode = "stdio" /\ proc.at = "running"
  /\ proc' = [ proc EXCEPT !.served = proc.served + 1 ]
  /\ UNCHANGED << instanceVars, httpVars, funcall >>

\* SIGTERM or SIGINT: shutdown calls httpServer.close(callback).  On a
\* listener that is closing or closed already the callback will get an error
Signal ==
  /\ proc.mode = "http"
  /\ proc.exitCode = "none"
  /\ proc.listener \in {"listening", "closing", "closed"}
  /\ proc.signals < MaxSignals
  /\ proc' = [ proc EXCEPT
       !.signals = proc.signals + 1,
       !.closeCalls = Append(proc.closeCalls, "listener"),
       !.listener = IF proc.listener = "listening" THEN "closing" ELSE proc.listener,
       !.callbacks = Append(proc.callbacks,
                            [ err |-> proc.listener # "listening", at |-> "queued" ]) ]
  /\ UNCHANGED << instanceVars, httpVars, funcall >>

\* the transport.close() calls of the callbacks that start, in their order
RECURSIVE transportCloseCalls(_, _)
transportCloseCalls(callbacks, k) ==
  IF k > Len(callbacks) THEN <<>>
  ELSE (IF callbacks[k].at = "queued" THEN << "transport" >> ELSE <<>>)
       \o transportCloseCalls(callbacks, k + 1)

\* the listener has no connection left and emits close: every callback that
\* waits for it runs up to its first await, the call of transport.close()
EmitClose ==
  /\ proc.mode = "http"
  /\ proc.exitCode = "none"
  /\ proc.listener \in {"closing", "closed"}
  /\ \E k \in 1..Len(proc.callbacks) : proc.callbacks[k].at = "queued"
  /\ proc' = [ proc EXCEPT
       !.listener = "closed",
       !.closeCalls = proc.closeCalls \o transportCloseCalls(proc.callbacks, 1),
       !.errors = proc.errors \/ \E k \in 1..Len(proc.callbacks) :
                                   proc.callbacks[k].at = "queued" /\ proc.callbacks[k].err,
       !.callbacks = [ k \in 1..Len(proc.callbacks) |->
                         IF proc.callbacks[k].at = "queued"
                           THEN [ proc.callbacks[k] EXCEPT !.at = "awaitTransport" ]
                           ELSE proc.callbacks[k] ] ]
  /\ UNCHANGED << instanceVars, httpVars, funcall >>

\* a callback goes on after an await: transport.close() is through and
\* server.close() is called, or server.close() is through and the process
\* exits with 1 if the callback got an error and 0 if not; a close that
\* rejects ends in the catch, which exits with 1
CallbackStep(k) ==
  /\ proc.mode = "http"
  /\ proc.exitCode = "none"
  /\ k \in 1..Len(proc.callbacks)
  /\ proc.callbacks[k].at \in {"awaitTransport", "awaitServer"}
  /\ \E ok \in BOOLEAN :
       proc' = IF ~ok THEN exited([ proc EXCEPT !.errors = TRUE ], "1")
               ELSE IF proc.callbacks[k].at = "awaitTransport"
                 THEN [ proc EXCEPT !.transport = "closed",
                                    !.closeCalls = Append(proc.closeCalls, "server"),
                                    !.callbacks[k].at = "awaitServer" ]
                 ELSE exited([ proc EXCEPT !.server = "closed" ],
                             IF proc.callbacks[k].err THEN "1" ELSE "0")
  /\ UNCHANGED << instanceVars, httpVars, funcall >>

NextProcess ==
  \/ CreateReturns
  \/ ConnectReturns
  \/ ListenReturns
  \/ ServeRequest
  \/ Signal
  \/ EmitClose
  \/ \E k \in 1..MaxSignals : CallbackStep(k)

SpecProcess == InitProcess /\ [][NextProcess]_vars

(***************************************************************************)
(* Properties of discovery and registration.                               *)
(***************************************************************************)
\* catalog name and kind of the listed objects whose details were good
RECURSIVE GoodRefs(_, _, _)
GoodRefs(objects, ok, i) ==
  IF i > Len(ok) THEN <<>>
  ELSE (IF ok[i] THEN << << objects[i].object_name, objects[i].object_type >> >>
        ELSE <<>>)
       \o GoodRefs(objects, ok, i + 1)

DefinitionRefs(defs) == [k \in 1..Len(defs) |-> << defs[k].pgName, defs[k].type >>]

DiscoveryDone == pc \in {"created", "failed"}

\* C1: whichever listed objects fail in their detail fetch (the call throws,
\* answers null, a non-object, an error or empty object, or an object the
\* schema rejects), introspectSchema returns, and returns definitions for
\* exactly the other listed objects, in listing order.
C1_PerObjectFailureIsolation ==
  listOutcome = "parsed" =>
    /\ Len(fetchOk) = idx - 1
    /\ DefinitionRefs(toolDefinitions) = GoodRefs(rawObjects, fetchOk, 1)
    /\ idx > Len(rawObjects) => DiscoveryDone

C1_Witness ==
  /\ DiscoveryDone
  /\ Len(rawObjects) = 2
  /\ fetchOk = << FALSE, TRUE >>
  /\ Len(toolDefinitions) = 1

\* C2: a failed listing call fails server creation; no tool set is produced
\* and served.
C2_ListingFailureIsFatal ==
  listOutcome = "threw" => pc # "created" /\ ~connected

\* C3: when the listing call succeeds, no single object makes createMcpServer
\* fail, and the server exposes the tools of all objects with good details
\* whose name is not taken by an earlier one.
C3_ObjectFailureNeverAborts ==
  listOutcome = "parsed" /\ idx > Len(rawObjects) =>
    /\ pc = "created"
    /\ \A k \in 1..Len(toolDefinitions) :
         toolAlreadyRegistered(tools, toolDefinitions[k].toolName)

NoTwoAlike(names) ==
  \A i, j \in 1..Len(names) : i # j => names[i] # names[j]

\* the first definition that carries the tool name of definition k
FirstNamed(defs, k) ==
  CHOOSE f \in 1..k :
    /\ defs[f].toolName = defs[k].toolName
    /\ \A g \in 1..(f - 1) : defs[g].toolName # defs[k].toolName

InvTool(i) == tools[inv[i].call.tool]

InvDefinition(i) == InvTool(i).definition

InvArgs(i) == inv[i].call.args

\* the caller's value for a parameter is missing or of the wrong type
ArgumentRejected(param, args) ==
  LET type == mapPgTypeToZod(param.pgType, FALSE)
  IN IF param.toolParamName \in DOMAIN args
       THEN ~AcceptsValue(type, args[param.toolParamName])
       ELSE type.k # "any"

\* C5: an invocation whose arguments miss a parameter of the function, or
\* carry a value its type rejects, ends with the argument-validation error
\* and has issued no database read or call.
C5_InvalidArgumentsNoDatabaseCall ==
  \A i \in InvIds :
    ( /\ inv[i].st # "idle"
      /\ InvDefinition(i).type = "FUNCTION"
      /\ \E k \in 1..Len(InvDefinition(i).parameters) :
           ArgumentRejected(InvDefinition(i).parameters[k], InvArgs(i)) )
    => /\ inv[i].st = "done"
       /\ inv[i].ops = <<>>
       /\ inv[i].result = InvalidParamsResult

C5_Witness ==
  \E i \in InvIds :
    /\ inv[i].st = "done"
    /\ InvDefinition(i).pgName = N_add_note
    /\ DOMAIN InvArgs(i) = { <<"p","I","d">> }
    /\ inv[i].result = InvalidParamsResult

\* C6: an invocation of a VIEW tool issues exactly one operation, the
\* unfiltered select of all columns of the view under its catalog name,
\* whatever the arguments.
C6_ViewIssuesOneSelectAll ==
  \A i \in InvIds :
    (inv[i].st # "idle" /\ InvDefinition(i).type = "VIEW")
    => inv[i].ops =
         << [kind |-> "select", from |-> InvDefinition(i).pgName, columns |-> "*"] >>

C6_Witness ==
  \E i \in InvIds :
    /\ inv[i].st = "done"
    /\ InvDefinition(i).type = "VIEW"
    /\ N_extra \in DOMAIN InvArgs(i)
    /\ Len(inv[i].ops) = 1

\* C7: with a value supplied under every public parameter name, the routine
\* is called under its catalog name with exactly its catalog parameter names
\* as keys, each with the value supplied under its public name, and no two
\* catalog parameters read the same public name.
C7_ArgumentMapInvertsNormalisation ==
  \A i \in InvIds :
    ( /\ inv[i].st # "idle"
      /\ InvDefinition(i).type = "FUNCTION"
      /\ Len(inv[i].ops) = 1 )
    => LET params == InvDefinition(i).parameters
           op == inv[i].ops[1]
       IN /\ op.kind = "rpc"
          /\ op.fn = InvDefinition(i).pgName
          /\ DOMAIN op.params = { params[k].name : k \in 1..Len(params) }
          /\ \A k \in 1..Len(params) :
               op.params[params[k].name] = InvArgs(i)[params[k].toolParamName]
          /\ \A k, m \in 1..Len(params) :
               params[k].name # params[m].name =>
                 params[k].toolParamName # params[m].toolParamName

IsErrorResult(r) ==
  /\ DOMAIN r = {"isError", "content"}
  /\ r.isError = TRUE
  /\ Len(r.content) = 1
  /\ r.content[1].type = "text"
  /\ r.content[1].text.kind = "error"
  /\ r.content[1].text.message # ""

IsSuccessResult(r) ==
  /\ DOMAIN r = {"content"}
  /\ Len(r.content) = 1
  /\ r.content[1].type = "text"

\* C8: a failed read or call ends the invocation with a tool-level error
\* result (isError, one text item with a message); every finished
\* invocation carries a result, the server stays connected and its tools
\* are the ones it was connected with.
C8_FailureBecomesErrorResult ==
  \A i \in InvIds :
    inv[i].st = "done" =>
      /\ "result" \in DOMAIN inv[i]
      /\ \/ inv[i].result = InvalidParamsResult
         \/ IsErrorResult(inv[i].result)
         \/ IsSuccessResult(inv[i].result)
      /\ ("outcome" \in DOMAIN inv[i] /\ inv[i].outcome.k = "error")
           => /\ IsErrorResult(inv[i].result)
              /\ connected
              /\ pc = "created"

C8_Witness ==
  \E i \in InvIds :
    /\ inv[i].st = "done"
    /\ "outcome" \in DOMAIN inv[i]
    /\ inv[i].outcome.k = "error"
    /\ inv[i].ops[1].kind = "rpc"

IsEmptyOutcome(outcome) ==
  outcome.k = "data" /\ (outcome.v = Null \/ outcome.v = Arr(<<>>))

\* C9 as stated: a null result and an empty row set are both encoded as the
\* no-content marker in a success result.
C9_EmptyIsNoContent ==
  \A i \in InvIds :
    (inv[i].st = "done" /\ "outcome" \in DOMAIN inv[i] /\ IsEmptyOutcome(inv[i].outcome))
    => inv[i].result = SuccessResult(NoContentText(InvDefinition(i)))

\* C9 amended: a null result of a routine call is encoded as the no-content
\* marker; an empty row set, and the null data of a view read, is encoded
\* as the serialised empty array; each in a success result.
C9_NullCallIsNoContent ==
  \A i \in InvIds :
    (inv[i].st = "done" /\ "outcome" \in DOMAIN inv[i] /\ IsEmptyOutcome(inv[i].outcome))
    => IF inv[i].ops[1].kind = "rpc" /\ inv[i].outcome.v = Null
         THEN inv[i].result = SuccessResult(NoContentText(InvDefinition(i)))
         ELSE inv[i].result = SuccessResult([kind |-> "json", value |-> Arr(<<>>)])

C9_Witness ==
  \E i \in InvIds :
    /\ inv[i].st = "done"
    /\ "outcome" \in DOMAIN inv[i]
    /\ inv[i].ops[1].kind = "select"
    /\ inv[i].outcome = [k |-> "data", v |-> Null]

\* C10: introspectSchema is called once per instance; the instance is
\* connected, and an invocation is in flight, only after every listed object
\* was fetched or skipped and every definition was registered or rejected.
C10_DiscoveryCompleteBeforeConnect ==
  /\ introspectCalls <= 1
  /\ (connected \/ \E i \in InvIds : inv[i].st # "idle") =>
       /\ connected
       /\ introspectCalls = 1
       /\ pc = "created"
       /\ listOutcome # "none"
       /\ Len(fetchOk) = Len(rawObjects)
       /\ \A k \in 1..Len(toolDefinitions) :
            toolAlreadyRegistered(tools, toolDefinitions[k].toolName)

C10_Witness ==
  /\ connected
  /\ Len(rawObjects) = 2
  /\ Len(toolDefinitions) = 2
  /\ \E i \in InvIds : inv[i].st = "awaiting"

(***************************************************************************)
(* Properties of overlapping invocations and of the registry.              *)
(***************************************************************************)
\* the operations an invocation issues when it is the only one
AloneOps(tool, args) ==
  IF ~AcceptsArgs(tool.inputSchema, args) \/ tool.definition.type = "BUILTIN"
    THEN <<>>
    ELSE << dispatch(tool.definition, ParsedArgs(tool.inputSchema, args)) >>

\* the result it returns when it is the only one and the database answers
\* its operation with outcome
AloneResult(tool, args, outcome) ==
  IF ~AcceptsArgs(tool.inputSchema, args) THEN InvalidParamsResult
  ELSE IF tool.definition.type = "BUILTIN"
    THEN getInfoResult(ParsedArgs(tool.inputSchema, args))
  ELSE encodeResult(tool.definition,
                    wrapperResult(AloneOps(tool, args)[1], outcome))

EachAsIfAlone ==
  \A i \in DOMAIN inv :
    inv[i].st # "idle" =>
      /\ inv[i].ops = AloneOps(InvTool(i), InvArgs(i))
      /\ inv[i].st = "done" =>
           inv[i].result =
             AloneResult(InvTool(i), InvArgs(i),
                         IF "outcome" \in DOMAIN inv[i] THEN inv[i].outcome
                         ELSE [k |-> "none"])

\* a step of one invocation leaves every other invocation and the registry
\* as they are
StepTouchesOneInvocation ==
  \A i \in DOMAIN inv :
    inv'[i] # inv[i] =>
      /\ \A j \in DOMAIN inv : j # i => inv'[j] = inv[j]
      /\ tools' = tools
      /\ toolDefinitions' = toolDefinitions

\* C11: under every interleaving of invocations of different tools or of the
\* same tool, each invocation issues the operation and returns the result it
\* would issue and return alone with the same database answer, and a step
\* of one invocation changes nothing another invocation holds.
C11_ConcurrentInvocationsIndependent ==
  []EachAsIfAlone /\ [][StepTouchesOneInvocation]_vars

C11_Witness ==
  \E i, j \in DOMAIN inv :
    /\ i # j
    /\ inv[i].st = "done"
    /\ "outcome" \in DOMAIN inv[i]
    /\ inv[i].outcome = [k |-> "data", v |-> Null]
    /\ inv[i].ops[1].kind = "rpc"
    /\ inv[j].st = "awaiting"
    /\ inv[j].call.tool # inv[i].call.tool

\* once createMcpServer has returned, a step keeps the registered tools
\* (names, descriptions, input schemas, closed-over definitions) and the
\* discovered definitions as they are
RegistryUntouched ==
  pc = "created" =>
    /\ pc' = "created"
    /\ tools' = tools
    /\ toolDefinitions' = toolDefinitions

\* C12: the registered tools of an instance are fixed once createMcpServer
\* has returned: connecting, invoking a tool, a database answer and sending
\* a response add, remove and change none.
C12_RegistryFixedAfterCreation == [][RegistryUntouched]_vars

C12_Witness ==
  /\ pc = "created"
  /\ connected
  /\ Len(tools) = 3
  /\ \E i \in InvIds :
       /\ inv[i].st = "done"
       /\ "outcome" \in DOMAIN inv[i]
       /\ inv[i].outcome.k = "error"
       /\ inv[i].ops[1].kind = "select"

\* an invocation whose operation was answered holds a success payload, or,
\* exactly when the read or call failed, an error payload with a message
AnsweredWellFormed ==
  \A i \in DOMAIN inv :
    /\ inv[i].st \in {"idle", "awaiting", "done"}
    /\ (inv[i].st = "done" /\ "outcome" \in DOMAIN inv[i]) =>
         /\ "result" \in DOMAIN inv[i]
         /\ IF inv[i].outcome.k = "error"
              THEN IsErrorResult(inv[i].result)
              ELSE IsSuccessResult(inv[i].result)

\* an awaiting invocation moves on only by getting its one result, and an
\* invocation with a result only by having it sent
OnePayloadPerInvocation ==
  \A i \in DOMAIN inv :
    /\ (inv[i].st = "awaiting" /\ inv'[i] # inv[i]) =>
         /\ inv'[i].st = "done"
         /\ inv'[i].call = inv[i].call
         /\ inv'[i].ops = inv[i].ops
    /\ (inv[i].st = "done" /\ inv'[i] # inv[i]) => inv'[i] = Idle

\* C24: every invocation whose database operation completes, by returning
\* or by failing, gets exactly one well-formed payload, a success payload or
\* an error payload with a message, and the payload is sent to the caller;
\* no invocation ends faulted or stays without a response.
C24_EveryInvocationAnswered ==
  /\ []AnsweredWellFormed
  /\ [][OnePayloadPerInvocation]_vars
  /\ \A i \in InvIds : (inv[i].st = "awaiting") ~> (inv[i].st = "done")
  /\ \A i \in InvIds : (inv[i].st = "done") ~> (inv[i].st = "idle")

C24_Witness ==
  \E i \in DOMAIN inv :
    /\ inv[i].st = "done"
    /\ "outcome" \in DOMAIN inv[i]
    /\ inv[i].outcome.k = "error"
    /\ IsErrorResult(inv[i].result)
    /\ inv[i].result.content[1].text.message = "Supabase select failed"

\* an invocation has issued no operation when its arguments were rejected
\* or its tool is the built-in one, and one operation otherwise
AtMostOneOperation ==
  \A i \in DOMAIN inv :
    inv[i].st # "idle" =>
      /\ Len(inv[i].ops) <= 1
      /\ inv[i].st = "awaiting" => Len(inv[i].ops) = 1
      /\ "outcome" \in DOMAIN inv[i] => Len(inv[i].ops) = 1

\* the phases of an invocation follow each other once: validation and
\* dispatch on entry, then the answer and its encoding with the operations
\* as they were, then the return, after which the slot is as before the
\* call; what the instance holds besides its invocations never changes
OncePerPhase ==
  /\ \A i \in DOMAIN inv :
       inv'[i] # inv[i] =>
         CASE inv[i].st = "idle" -> inv'[i].st \in {"awaiting", "done"}
           [] inv[i].st = "awaiting" ->
                /\ inv'[i].st = "done"
                /\ inv'[i].ops = inv[i].ops
                /\ inv'[i].call = inv[i].call
           [] inv[i].st = "done" -> inv'[i] = Idle
  /\ UNCHANGED << pc, listOutcome, rawObjects, idx, fetchOk, toolDefinitions,
                  tools, logs, connected, introspectCalls >>

\* C25: an invocation issues at most one database operation, goes through
\* validation, dispatch, encoding and return once each, never issues a
\* failed read or call again, and leaves nothing behind: after its return
\* the instance is as it was before the call.
C25_OneOperationNoRetryNoResidue ==
  []AtMostOneOperation /\ [][OncePerPhase]_vars

C25_Witness ==
  \E i, j \in DOMAIN inv :
    /\ i # j
    /\ inv[i].st = "done"
    /\ "outcome" \in DOMAIN inv[i]
    /\ inv[i].outcome.k = "error"
    /\ Len(inv[i].ops) = 1
    /\ inv[j].st = "awaiting"
    /\ inv[j].call = inv[i].call
    /\ inv[j].ops = inv[i].ops

(***************************************************************************)
(* Properties of the stateless HTTP transport.                             *)
(***************************************************************************)
\* the registry createMcpServer builds when the schema is cat for the whole
\* discovery pass
ToolsOfCatalog(cat) ==
  LET objects == listingOf(cat, 1)
  IN registerAll(introspectAll([j \in 1..Len(objects) |-> detailsOf(cat, objects[j])],
                               1, <<>>), {}).tools

OwnDiscoveryPass ==
  \A r \in DOMAIN req :
    /\ req[r].st \in {"listing", "fetching", "serving"} => req[r].introspectCalls = 1
    /\ req[r].st = "serving" =>
         /\ req[r].rawObjects = listingOf(req[r].atListing, 1)
         /\ Len(req[r].seen) = Len(req[r].rawObjects)
         /\ DefinitionRefs(req[r].toolDefinitions)
              = GoodRefs(req[r].rawObjects, req[r].seen, 1)
         /\ \A k \in 1..Len(req[r].toolDefinitions) :
              \E t \in 1..Len(req[r].tools) :
                req[r].tools[t].definition = req[r].toolDefinitions[k]
         /\ Len(req[r].tools) = Len(req[r].toolDefinitions) + 1
         /\ ( req[r].atListing = req[r].arrived
              /\ \A k \in 1..Len(req[r].seen) : req[r].seen[k] )
            => req[r].tools = ToolsOfCatalog(req[r].arrived)

\* a step of one request leaves every other request as it is
StepTouchesOneRequest ==
  \A r \in DOMAIN req :
    req'[r] # req[r] => \A q \in DOMAIN req : q # r => req'[q] = req[q]

Discovered ==
  funcall.fn = "discover" /\ funcall.st = "returned" /\ ~funcall.skipped

\* C14: a definition made from a VIEW payload has no parameters and one
\* made from a FUNCTION payload has no columns, whichever of the fields
\* columns, parameters, return_type and returns_set the payload carries.
C14_OneVariantPopulated ==
  Discovered =>
    /\ funcall.payload.object_type = "VIEW" =>
         /\ funcall.definition.type = "VIEW"
         /\ funcall.definition.parameters = <<>>
    /\ funcall.payload.object_type = "FUNCTION" =>
         /\ funcall.definition.type = "FUNCTION"
         /\ funcall.definition.columns = <<>>

C14_Witness ==
  /\ Discovered
  /\ funcall.payload.object_type = "VIEW"
  /\ "columns" \in DOMAIN funcall.payload
  /\ "parameters" \in DOMAIN funcall.payload
  /\ Len(funcall.payload.parameters) = 2
  /\ Len(funcall.definition.columns) = 2
  /\ funcall.definition.parameters = <<>>

MapperReturned ==
  funcall.fn = "mapPgTypeToZod" /\ funcall.st = "returned"

\* the mapping table of the type mapper as documented: type name, semantic
\* type (double stands for float8, the catalog's name of double precision)
DocumentedTable ==
  {
    << <<"t","e","x","t">>, ZString >>,
    << <<"v","a","r","c","h","a","r">>, ZString >>,
    << <<"c","h","a","r">>, ZString >>,
    << <<"n","a","m","e">>, ZString >>,
    << <<"b","y","t","e","a">>, ZString >>,
    << <<"i","n","t","2">>, ZInt >>,
    << <<"i","n","t","4">>, ZInt >>,
    << <<"s","e","r","i","a","l">>, ZInt >>,
    << <<"s","m","a","l","l","s","e","r","i","a","l">>, ZInt >>,
    << <<"i","n","t","8">>, ZBigInt >>,
    << <<"b","i","g","s","e","r","i","a","l">>, ZBigInt >>,
    << <<"n","u","m","e","r","i","c">>, ZNumericString >>,
    << <<"d","e","c","i","m","a","l">>, ZNumericString >>,
    << <<"r","e","a","l">>, ZNumber >>,
    << <<"f","l","o","a","t","8">>, ZNumber >>,
    << <<"b","o","o","l","e","a","n">>, ZBoolean >>,
    << <<"u","u","i","d">>, ZUuid >>,
    << <<"d","a","t","e">>, ZDate >>,
    << <<"t","i","m","e","s","t","a","m","p">>, ZDateTime >>,
    << <<"t","i","m","e","s","t","a","m","p","t","z">>, ZDateTime >>,
    << <<"j","s","o","n">>, ZAny >>,
    << <<"j","s","o","n","b">>, ZAny >> }

DocumentedNames == { row[1] : row \in DocumentedTable }

DocumentedType(name) == (CHOOSE row \in DocumentedTable : row[1] = name)[2]

\* the semantic type of an element type, in the spelling and with the
\* nullability of the call
Wrapped(base) ==
  LET whole == IF funcall.form = "plain" THEN base ELSE ZArray(base)
  IN IF funcall.isNullable THEN ZNullable(whole) ELSE whole

\* C15: for every type name of the documented table, in scalar and in
\* array form, the mapper returns the documented semantic type.
C15_TableTypesAsDocumented ==
  (MapperReturned /\ funcall.element \in DocumentedNames) =>
    funcall.result = Wrapped(DocumentedType(funcall.element))

\* further spellings of the documented families
DocumentedAliases ==
  { <<"i","n","t">>,
    <<"i","n","t","e","g","e","r">>,
    <<"s","m","a","l","l","i","n","t">>,
    <<"b","i","g","i","n","t">>,
    <<"f","l","o","a","t","4">>,
    <<"d","o","u","b","l","e","p","r","e","c","i","s","i","o","n">>,
    <<"b","o","o","l">>,
    <<"b","p","c","h","a","r">> }

RECURSIVE IsSemanticType(_)
IsSemanticType(type) ==
  \/ type \in { ZString, ZInt, ZBigInt, ZNumericString, ZNumber, ZBoolean,
                 ZUuid, ZDate, ZDateTime, ZAny }
  \/ type.k \in {"array", "nullable"} /\ IsSemanticType(type.of)

\* C16: the mapper returns a semantic type for every type name and either
\* nullability; a name that belongs to no documented family gives the open
\* type, in an array when the name carries an array marker, and a warning.
C16_TypeMapperTotal ==
  MapperReturned =>
    /\ IsSemanticType(funcall.result)
    /\ funcall.element \notin DocumentedNames \cup DocumentedAliases =>
         /\ funcall.result = Wrapped(ZAny)
         /\ funcall.warned

C16_Witness ==
  /\ MapperReturned
  /\ funcall.pgType = << "_" >>
  /\ funcall.isNullable
  /\ funcall.result = ZNullable(ZArray(ZAny))
  /\ funcall.warned

RECURSIVE HasNullable(_)
HasNullable(type) ==
  \/ type.k = "nullable"
  \/ type.k \in {"array", "optional"} /\ HasNullable(type.of)

\* C17: for an array-marked type name with nullable = true the result is
\* nullable(array(element)) with no nullable inside the array; with
\* nullable = false the result holds no nullable wrapper at all.
C17_ArrayThenNullable ==
  MapperReturned =>
    /\ (funcall.isNullable /\ funcall.form # "plain") =>
         /\ funcall.result.k = "nullable"
         /\ funcall.result.of.k = "array"
         /\ ~HasNullable(funcall.result.of.of)
    /\ ~funcall.isNullable => ~HasNullable(funcall.result)

C17_Witness ==
  /\ MapperReturned
  /\ funcall.pgType = << "_" >> \o T_uuid
  /\ funcall.isNullable
  /\ funcall.result = ZNullable(ZArray(ZUuid))

\* the name rule as documented: split on underscores, lower-case the first
\* segment, capitalise the first letter of each later one, concatenate
RECURSIVE SplitOnUnderscore(_, _, _)
SplitOnUnderscore(s, i, cur) ==
  IF i > Len(s) THEN << cur >>
  ELSE IF s[i] = "_" THEN << cur >> \o SplitOnUnderscore(s, i + 1, <<>>)
  ELSE SplitOnUnderscore(s, i + 1, Append(cur, s[i]))

Capitalise(segment) ==
  IF segment = <<>> THEN segment
  ELSE << toUpperChar(segment[1]) >> \o SubSeq(segment, 2, Len(segment))

RECURSIVE ConcatCapitalised(_, _)
ConcatCapitalised(segments, i) ==
  IF i > Len(segments) THEN <<>>
  ELSE Capitalise(segments[i]) \o ConcatCapitalised(segments, i + 1)

UnderscoreRule(s) ==
  LET segments == SplitOnUnderscore(s, 1, <<>>)
  IN toLowerCase(segments[1]) \o ConcatCapitalised(segments, 2)

NameReturned == funcall.fn = "camelCase" /\ funcall.st = "returned"

\* C19 as stated: the tool name is what the underscore rule gives, for
\* every identifier.
C19_NameRuleEverywhere ==
  NameReturned => funcall.result = UnderscoreRule(funcall.name)

\* lower-case letters, digits and underscores, not starting with an
\* underscore, every segment after the first empty or starting with a letter
IsPlainIdentifier(s) ==
  /\ \A i \in 1..Len(s) : IsLower(s[i]) \/ IsDigit(s[i]) \/ s[i] = "_"
  /\ s[1] # "_"
  /\ \A i \in 2..Len(s) : s[i-1] = "_" => ~IsDigit(s[i])

\* C19 amended: for an identifier of lower-case letters, digits and
\* underscores that does not start with an underscore and has no digit
\* right after an underscore, the tool name is what the underscore rule
\* gives, also with trailing and doubled underscores.
C19_NameRuleOnPlainIdentifiers ==
  (NameReturned /\ IsPlainIdentifier(funcall.name)) =>
    funcall.result = UnderscoreRule(funcall.name)

C19_Witness ==
  /\ NameReturned
  /\ funcall.name = << "a", "_", "_", "a" >>
  /\ funcall.result = << "a", "A" >>

\* the parameters of the payload a definition was made from
PayloadParameters ==
  IF "parameters" \in DOMAIN funcall.payload THEN funcall.payload.parameters ELSE <<>>

\* the property of the input schema for catalog parameter q is as documented
PropertyAsDocumented(shape, q) ==
  LET key == camelCase(q.parameter_name)
  IN /\ key \in DOMAIN shape
     /\ shape[key].type = mapPgTypeToZod(q.data_type, FALSE)
     /\ ~HasNullable(shape[key].type)
     /\ ~AcceptsValue(shape[key].type, Undefined)
     /\ (funcall.payload.comment.t = "txt" /\ funcall.payload.comment.v # "") =>
          shape[key].description = funcall.payload.comment

\* C18: the input schema of a FUNCTION tool has exactly one property per
\* catalog parameter, under the parameter's public name, required, not
\* nullable, typed by the type mapper and described by the function's
\* comment; the input schema of a VIEW tool is the empty object.
C18_OnePropertyPerParameter ==
  Discovered =>
    IF funcall.payload.object_type = "FUNCTION"
      THEN /\ Cardinality(DOMAIN funcall.tool.inputSchema) = Len(PayloadParameters)
           /\ \A k \in 1..Len(PayloadParameters) :
                PropertyAsDocumented(funcall.tool.inputSchema, PayloadParameters[k])
      ELSE funcall.tool.inputSchema = EmptyRecord

\* the positions of a parameter list are 1, 2, ... in this order
PositionsContiguous(parameters) ==
  \A k \in 1..Len(parameters) : parameters[k].position = k

\* C20: a definition's parameters are in catalog position order, from 1
\* and without gaps; a FUNCTION payload whose positions are out of order,
\* repeated or have a gap is skipped and gives no definition.
C20_ParametersInPositionOrder ==
  ( /\ funcall.fn = "discover"
    /\ funcall.st = "returned"
    /\ funcall.payload.object_type = "FUNCTION" )
  => IF PositionsContiguous(PayloadParameters)
       THEN ~funcall.skipped =>
              [k \in 1..Len(funcall.definition.parameters) |->
                 funcall.definition.parameters[k].name]
              = [k \in 1..Len(PayloadParameters) |->
                   PayloadParameters[k].parameter_name]
       ELSE funcall.skipped

ToolsRegistered == funcall.fn = "registerTools" /\ funcall.st = "returned"

\* server.tool() throws for definition k: its name is registered already
RegistrationThrows(defs, k) ==
  \E g \in 1..(k - 1) : defs[g].toolName = defs[k].toolName

\* the definitions whose registration does not throw, in list order
RECURSIVE Survivors(_, _)
Survivors(defs, k) ==
  IF k > Len(defs) THEN <<>>
  ELSE (IF RegistrationThrows(defs, k) THEN <<>> ELSE << defs[k] >>)
       \o Survivors(defs, k + 1)

\* C21: registerTools returns for every definition list; the registered
\* tools are those of exactly the definitions whose registration did not
\* throw, before and after a failing one, in list order, and each failing
\* definition is logged.
C21_RegistrationIsolatesFailures ==
  ToolsRegistered =>
    /\ [t \in 1..Len(funcall.tools) |-> funcall.tools[t].definition]
         = Survivors(funcall.definitions, 1)
    /\ \A k \in 1..Len(funcall.definitions) :
         RegistrationThrows(funcall.definitions, k) =>
           RegisterFailed(funcall.definitions[k].toolName) \in funcall.logs

C21_Witness ==
  /\ ToolsRegistered
  /\ Len(funcall.definitions) = 3
  /\ RegistrationThrows(funcall.definitions, 2)
  /\ Len(funcall.tools) = 2
  /\ funcall.tools[2].definition = funcall.definitions[3]
  /\ funcall.definitions[1] # funcall.definitions[2]

\* the output schema documented for a VIEW tool: an array of row objects,
\* one property per column in declaration order, typed by the type mapper
\* with the column's nullability, described by the column's comment
RowProperty(column) ==
  [ name |-> column.column_name,
    type |-> mapPgTypeToZod(column.data_type, column.is_nullable),
    description |-> Coalesce(column.comment, Undefined) ]

DocumentedViewOutput(columns) ==
  [ k |-> "array",
    of |-> [ k |-> "object",
             properties |-> [c \in 1..Len(columns) |-> RowProperty(columns[c])] ] ]

\* C22: every registered VIEW tool exposes an output schema, the array of
\* row objects with one property per view column, in declaration order,
\* typed with the column's nullability and described by its comment.
C22_ViewOutputSchema ==
  ( /\ Discovered
    /\ funcall.payload.object_type = "VIEW"
    /\ "columns" \in DOMAIN funcall.payload )
  => /\ "outputSchema" \in DOMAIN funcall.tool
     /\ funcall.tool.outputSchema = DocumentedViewOutput(funcall.payload.columns)

Encoded == funcall.fn = "encode" /\ funcall.st = "returned"

DecimalsFrom53 ==
  << "9007199254740992", "9007199254740993", "9007199254740994",
     "9007199254740995", "9007199254740996" >>

\* the exact decimal string of an int8 value
DecimalString(lit) ==
  IF lit.offset = "0" THEN ToString(lit.d) ELSE DecimalsFrom53[lit.d + 1]

\* a result as documented: int8 values as decimal strings, the rest as is
RECURSIVE DocumentedEncoding(_)
DocumentedEncoding(x) ==
  CASE x.t = "int8" -> Txt(DecimalString(x))
    [] x.t = "arr" -> Arr([i \in 1..Len(x.v) |-> DocumentedEncoding(x.v[i])])
    [] x.t = "obj" -> Obj([f \in DOMAIN x.v |-> DocumentedEncoding(x.v[f])])
    [] OTHER -> x

\* C23: every 64-bit integer of a result, at any depth and also above 2^53,
\* is in the encoded result as its exact decimal string, and every other
\* value is there unchanged.
C23_Int8AsExactDecimalString ==
  (Encoded /\ funcall.body # Null) =>
    funcall.result =
      SuccessResult([kind |-> "json", value |-> DocumentedEncoding(funcall.body)])

\* the request has a server and transport that are not closed
PairOpen(r) == req[r].st \in {"serving", "responded"}

\* the POST handler of the request has run to its end
HandlerFinished(r) == req[r].st \in {"responded", "closed", "failed"}

\* C26: every server/transport pair created for a POST /mcp is closed
\* once the connection has closed and the handler has run to its end,
\* whether the connection closed before or after request handling was
\* through.
C26_PairClosedWithConnection ==
  \A r \in DOMAIN req :
    (conn[r] = "closed" /\ HandlerFinished(r)) => ~PairOpen(r)

\* a request is accepted only with the server connected to its transport
\* and, in the HTTP mode, the listener up
AcceptsOnlyWhenReady ==
  (proc.mode \in Modes /\ proc'.served > proc.served) =>
    /\ proc.failedAt = "none"
    /\ proc.server = "connected"
    /\ proc.transport = "open"
    /\ proc.mode = "http" => proc.listener = "listening"

\* a failure of createMcpServer or of server.connect ends the process with
\* code 1, with no listener and no request served
SetupFailureIsFatal ==
  (proc.mode \in Modes /\ proc.failedAt \in {"create", "connect"}) =>
    /\ proc.at = "exited"
    /\ proc.exitCode = "1"
    /\ proc.listener = "none"
    /\ proc.served = 0

\* C27: in the persistent HTTP mode and the stdio mode a request is accepted
\* only after createMcpServer and server.connect have succeeded; when
\* either fails the run function rejects, no listener is started, no
\* request is served and main exits with code 1.
C27_ServeOnlyAfterSetup ==
  []SetupFailureIsFatal /\ [][AcceptsOnlyWhenReady]_vars

C27_Witness ==
  /\ proc.mode = "http"
  /\ proc.failedAt = "connect"
  /\ proc.server = "created"
  /\ proc.exitCode = "1"

\* the process has ended through its shutdown handler
ShutDown ==
  proc.mode = "http" /\ proc.exitCode # "none" /\ proc.failedAt = "none"

IsPrefix(q, whole) == Len(q) <= Len(whole) /\ q = SubSeq(whole, 1, Len(q))

\* C28: whatever signals arrive, also a second one while the shutdown is
\* under way, the process that ends through its shutdown handler has
\* closed the listener, then the transport, then the server, none of them
\* twice, and has exited with 0 exactly when no close step reported an error.
C28_OrderedShutdownOnce ==
  ShutDown =>
    /\ IsPrefix(proc.closeCalls, << "listener", "transport", "server" >>)
    /\ proc.exitCode = "0" =>
         proc.closeCalls = << "listener", "transport", "server" >>
    /\ proc.exitCode = "0" <=> ~proc.errors

Introspected == funcall.fn = "introspectSchema" /\ funcall.st = "returned"

\* the listing call failed, or its result is no array, or one entry of it
\* fails the entry schema
ListingUnusable(outcome) ==
  \/ outcome.k = "error"
  \/ outcome.v.t # "arr"
  \/ \E i \in 1..Len(outcome.v.v) : ~schemaObjectSchema(outcome.v.v[i])

FunctionCalled ==
  funcall.fn = "handler" /\ funcall.st = "returned" /\ funcall.accepted

\* the parameters of the called function the caller has given a value for
Supplied ==
  { k \in 1..Len(funcall.definition.parameters) :
      funcall.definition.parameters[k].toolParamName \in DOMAIN funcall.args }

\* C30: the argument map a FUNCTION invocation sends to the database has
\* exactly the catalog names of the parameters the caller supplied under
\* their public names, each with the caller's value: a key of the caller
\* that is no public name is not forwarded, and a parameter without a value
\* from the caller has no key, neither with null nor otherwise.
C30_OnlySuppliedParametersSent ==
  FunctionCalled =>
    /\ funcall.op.kind = "rpc"
    /\ DOMAIN funcall.op.params =
         { funcall.definition.parameters[k].name : k \in Supplied }
    /\ DOMAIN funcall.op.params \subseteq
         { funcall.definition.parameters[k].name :
             k \in 1..Len(funcall.definition.parameters) }
    /\ N_extra \notin DOMAIN funcall.op.params
    /\ \A k \in Supplied :
         funcall.op.params[funcall.definition.parameters[k].name] =
           funcall.args[funcall.definition.parameters[k].toolParamName]

\* a call that leaves out the json parameter and brings an unknown key
C30_Witness ==
  /\ FunctionCalled
  /\ Len(funcall.definition.parameters) = 1
  /\ Supplied = {}
  /\ N_extra \in DOMAIN funcall.args
  /\ DOMAIN funcall.op.params = {}

====
